---- MODULE Spec2Model ----
(***************************************************************************)
(* A state-machine model of QuatNet_OBB:                                   *)
(*   - engine/trainer.py: Trainer.validate_and_save / save_checkpoint and  *)
(*     Trainer.train_one_epoch, batch step by batch step                   *)
(*   - cifar10 copy.py:   main()'s epoch loop, MetricsLogger, QResNet34's  *)
(*     dropout-rate schedule, the quaternion structural operations         *)
(*     (QuaternionDropout, QuaternionAvgPool, QuaternionMaxPool,           *)
(*     QuaternionCIFAR10.pool_spatial_only / avg_pool),                    *)
(*     MultiAugmentDataset and Cutout with the random generators they use, *)
(*     and the SIGINT handler handle_keyboard_interrupt.                   *)
(*                                                                         *)
(* Number conventions.  Probabilities, rates and metrics are Python floats *)
(* in the source.  They are modelled as integers counting hundredths       *)
(* (0.25 is 25, 0.5 is 50), which is exact for every comparison the        *)
(* modelled code makes.  Tensor elements are exact rationals <<n, d>>.     *)
(***************************************************************************)
EXTENDS Integers, Sequences, FiniteSets, TLC

VARIABLES
    \* ---- Trainer (engine/trainer.py) ----
    best_map,          \* self.best_map, hundredths
    best_epoch,        \* self.best_epoch
    model_state_dict,  \* Trainer's model parameters: number of epochs trained
    save_dir,          \* files under self.save_dir: path -> checkpoint
    last_writes,       \* paths written by the latest validate_and_save, in order
    trainer_pc,        \* the driver's position: "train" | "validate"
    trainer_epoch,     \* the driver's loop variable, the epoch argument
    best_saved_at,     \* history: epochs at which best_model.pth was written
    max_seen,          \* history: max of 0 and every map50 returned so far
    map50_log,         \* history: the first LogLen map50 values returned
    \* ---- main() of the classification script ----
    main_pc,           \* "loop" | "done" | a position of the interrupt handler
    main_epoch,        \* the loop variable: the epoch about to run
    best_acc,          \* best_acc
    metrics,           \* metrics_logger.metrics: name -> sequence
    main_files,        \* files under SAVE_DIR: name -> content
    writer_open,       \* the SummaryWriter is open
    pbar_open,         \* the epoch progress bar is open
    ckpt_saved_at,     \* history: epochs at which the checkpoint was written
    metrics_saved_at,  \* history: epochs at which metrics_logger.save() ran
    \* ---- QResNet34 ----
    current_rates,     \* self.current_rates: 5 doubles
    blocks,            \* <<stage, i>> -> [dropout1, dropout2] of conv(stage+2)_x[i]
    classifier_dropout,\* self.classifier[3]
    model_training,    \* the model's training flag (model.train() / model.eval())
    update_calls,      \* history: number of update_dropout_rates calls so far
    \* ---- a stand-alone QuaternionDropout module ----
    dropout,           \* [p, training]
    \* ---- a call of a quaternion structural operation ----
    call,              \* <<>> when no call is pending, else <<[op, x, out, ...]>>
    \* ---- Trainer.train_one_epoch, one batch step at a time ----
    ep_cfg,            \* [grad_clip_val, scheduler, num_batches] of the Trainer
    ep_pc,             \* "idle" | "fetch" | a body step | "after_loop" | "returned" | "raised"
    ep_batch,          \* batch_idx
    ep_loss,           \* total_loss.item() of the current batch
    ep_metrics,        \* epoch_metrics['total_loss']
    ep_result,         \* <<>> | <<[kind |-> "returned" | "raised", ...]>>
    ep_trace,          \* history: the <<batch_idx, step>> pairs started, in order
    ep_log,            \* history: the batch indices printed by the except clause
    ep_raised,         \* history: <<>> | <<the <<batch_idx, step>> that raised>>
    \* ---- a MultiAugmentDataset and the global torch generator ----
    ds,                \* [train, augmentations_per_image, seed, base_len, indices]
    torch_rng,         \* the global torch generator: [seed, count]
    \* ---- handle_keyboard_interrupt (its position is in main_pc) ----
    int_globals,       \* the names of globals() the handler looks up
    int_attempted,     \* history: the cleanup steps (try blocks) entered
    int_failed,        \* history: the cleanup steps whose try block raised
    int_closed,        \* the global objects whose close() returned
    cwd_files,         \* files of the working directory: name -> content
    \* ---- the configuration the script runs with ----
    epochs_cfg,        \* the value of the module constant EPOCHS
    net                \* the network built: [class, num_classes, dropRate]

trainerVars == <<best_map, best_epoch, model_state_dict, save_dir, last_writes,
                 trainer_pc, trainer_epoch, best_saved_at, max_seen, map50_log>>

mainVars == <<main_pc, main_epoch, best_acc, metrics, main_files, writer_open,
              pbar_open, ckpt_saved_at, metrics_saved_at>>

resnetVars == <<current_rates, blocks, classifier_dropout, model_training,
                update_calls>>

epochVars == <<ep_cfg, ep_pc, ep_batch, ep_loss, ep_metrics, ep_result, ep_trace,
               ep_log, ep_raised>>

dataVars == <<ds, torch_rng>>

intVars == <<int_globals, int_attempted, int_failed, int_closed, cwd_files>>

cfgVars == <<epochs_cfg, net>>

extVars == <<epochVars, dataVars, intVars, cfgVars>>

vars == <<trainerVars, mainVars, resnetVars, dropout, call, extVars>>

(***************************************************************************)
(* Generic helpers                                                         *)
(***************************************************************************)
Max(a, b) == IF a >= b THEN a ELSE b

Min(a, b) == IF a <= b THEN a ELSE b

(***************************************************************************)
(* Trainer                                                                 *)
(***************************************************************************)
\* Last epoch the driver runs (epochs 0..MaxEpoch).
MaxEpoch == 12

\* Number of leading validation results kept in map50_log.
LogLen == 4

\* The values self.validate()['map50'] may take, in hundredths.
Map50Values == {0, 10, 20, 25, 30}

\* os.path.join(self.save_dir, f'checkpoint_epoch_{epoch}.pth')
CheckpointPath(epoch) == <<"checkpoint_epoch", epoch>>

\* os.path.join(self.save_dir, 'best_model.pth')
BestPath == <<"best_model">>

\* Trainer.__init__: best_map = 0.0, best_epoch = 0, nothing saved yet.
TrainerInit ==
    /\ best_map = 0
    /\ best_epoch = 0
    /\ model_state_dict = 0
    /\ save_dir = <<>>
    /\ last_writes = <<>>
    /\ trainer_pc = "train"
    /\ trainer_epoch = 0
    /\ best_saved_at = {}
    /\ max_seen = 0
    /\ map50_log = <<>>

\* torch.save(obj, path) on a file system fs = [files, writes]: the file at
\* path is created or overwritten, and the write is appended to fs.writes.
TorchSave(fs, path, obj) ==
    [files  |-> [p \in (DOMAIN fs.files) \cup {path} |->
                    IF p = path THEN obj ELSE fs.files[p]],
     writes |-> Append(fs.writes, path)]

\* Mutation of CheckpointDict: 'best_map' holds the metric of construction.
CheckpointDict_initbest(epoch, bm) ==
    [epoch |-> epoch, model_state_dict |-> model_state_dict, best_map |-> 0]

\* The checkpoint dict save_checkpoint builds; bm is self.best_map at the call.
\* (The optimizer, scheduler and scaler states change with the parameters and
\* are carried by model_state_dict.)
CheckpointDict(epoch, bm) ==
    [epoch |-> epoch, model_state_dict |-> model_state_dict, best_map |-> bm]

\* Trainer.save_checkpoint(epoch, is_best) with self.best_map = bm.
SaveCheckpoint(fs, epoch, is_best, bm) ==
    LET checkpoint == CheckpointDict(epoch, bm)
        saved == TorchSave(fs, CheckpointPath(epoch), checkpoint)
    IN  IF is_best THEN TorchSave(saved, BestPath, checkpoint) ELSE saved

\* Mutation of IsBest: a metric equal to the best so far also counts.
IsBest_geq(map50, bm) == map50 >= bm

\* 'if val_metrics['map50'] > self.best_map'
IsBest(map50, bm) == map50 > bm

\* Mutation of IsPeriodic: the cadence skips epoch 0.
IsPeriodic_skip0(epoch) == epoch % 10 = 0 /\ epoch > 0

\* 'if epoch % 10 == 0'
IsPeriodic(epoch) == epoch % 10 = 0

\* The driver trains one epoch before validating it; the parameters change.
TrainOneEpoch ==
    /\ trainer_pc = "train"
    /\ trainer_epoch <= MaxEpoch
    /\ model_state_dict' = model_state_dict + 1
    /\ trainer_pc' = "validate"
    /\ UNCHANGED <<best_map, best_epoch, save_dir, last_writes, trainer_epoch,
                   best_saved_at, max_seen, map50_log>>
    /\ UNCHANGED <<mainVars, resnetVars, dropout, call, extVars>>

\* Trainer.validate_and_save(trainer_epoch), self.validate() returning map50.
ValidateAndSave(map50) ==
    /\ trainer_pc = "validate"
    /\ LET epoch == trainer_epoch
           improved == IsBest(map50, best_map)
           bm == IF improved THEN map50 ELSE best_map
           fs0 == [files |-> save_dir, writes |-> <<>>]
           fs1 == IF improved THEN SaveCheckpoint(fs0, epoch, TRUE, bm) ELSE fs0
           fs2 == IF IsPeriodic(epoch)
                  THEN SaveCheckpoint(fs1, epoch, FALSE, bm) ELSE fs1
       IN  /\ best_map' = bm
           /\ best_epoch' = IF improved THEN epoch ELSE best_epoch
           /\ save_dir' = fs2.files
           /\ last_writes' = fs2.writes
           /\ best_saved_at' =
                  IF \E i \in 1..Len(fs2.writes) : fs2.writes[i] = BestPath
                  THEN best_saved_at \cup {epoch} ELSE best_saved_at
    /\ max_seen' = Max(max_seen, map50)
    /\ map50_log' = IF Len(map50_log) < LogLen
                    THEN Append(map50_log, map50) ELSE map50_log
    /\ trainer_epoch' = trainer_epoch + 1
    /\ trainer_pc' = "train"
    /\ UNCHANGED model_state_dict
    /\ UNCHANGED <<mainVars, resnetVars, dropout, call, extVars>>

TrainerNext ==
    \/ TrainOneEpoch
    \/ \E map50 \in Map50Values : ValidateAndSave(map50)

(***************************************************************************)
(* main(): the classification training loop, and MetricsLogger             *)
(***************************************************************************)
\* EPOCHS: 300 in the source; the largest number of epochs the model runs.
EPOCHS == 10

\* The values the constant EPOCHS is configured with.
EpochsConfigs == {EPOCHS \div 2, EPOCHS}

\* Test accuracies evaluate() may return (percent).
AccValues == {0, 40, 70}

\* (train_loss, train_acc) results of train_epoch.
TrainResults == {[loss |-> 2, acc |-> 50]}

\* (test_loss, test_acc) results of evaluate.
EvalResults == {[loss |-> 3, acc |-> a] : a \in AccValues}

\* MODEL_NAME, under SAVE_DIR.
MODEL_NAME == "Q34_adamw.pth"

\* MetricsLogger.save's default filename.
METRICS_JSON == "Q34_admw_metrics.json"

\* MetricsLogger.plot's default save_path.
PLOTS_PNG == "Q34_admw_plots.png"

\* MetricsLogger.__init__: six named metrics, each an empty list.
MetricsLoggerInit ==
    [train_acc |-> <<>>, test_acc |-> <<>>, train_loss |-> <<>>,
     test_loss |-> <<>>, train_reg_loss |-> <<>>, test_reg_loss |-> <<>>]

\* Mutation of MetricsUpdate: the value is put in front of the sequence.
MetricsUpdate_prepend(m, epoch_metrics) ==
    [k \in DOMAIN m |-> IF k \in DOMAIN epoch_metrics
                         THEN <<epoch_metrics[k]>> \o m[k] ELSE m[k]]

\* MetricsLogger.update(epoch_metrics): append to each known metric named.
MetricsUpdate(m, epoch_metrics) ==
    [k \in DOMAIN m |-> IF k \in DOMAIN epoch_metrics
                        THEN Append(m[k], epoch_metrics[k]) ELSE m[k]]

\* open(path, 'w') and write: the file is created or replaced wholesale.
WriteFile(files, path, content) ==
    [p \in (DOMAIN files) \cup {path} |-> IF p = path THEN content ELSE files[p]]

\* MetricsLogger.save(filename): json.dump(self.metrics).
MetricsSave(files, m, filename) == WriteFile(files, filename, m)

\* MetricsLogger.plot(save_path): the chart of the four plotted metrics.
MetricsPlot(files, m, save_path) ==
    WriteFile(files, save_path,
              [train_acc |-> m.train_acc, test_acc |-> m.test_acc,
               train_loss |-> m.train_loss, test_loss |-> m.test_loss])

\* Mutation of IsMetricsSaveEpoch: the cadence counts from epoch 0.
IsMetricsSaveEpoch_from0(epoch) == epoch % 10 = 0

\* 'if (epoch + 1) % 10 == 0'
IsMetricsSaveEpoch(epoch) == (epoch + 1) % 10 = 0

\* Mutation of IsNewBestAcc: an accuracy equal to the best also saves.
IsNewBestAcc_geq(test_acc, best) == test_acc >= best

\* 'if test_acc > best_acc'
IsNewBestAcc(test_acc, best) == test_acc > best

\* main() up to the loop: logger, writer and progress bar created, best_acc = 0.
MainInit ==
    /\ main_pc = "loop"
    /\ main_epoch = 0
    /\ best_acc = 0
    /\ metrics = MetricsLoggerInit
    /\ main_files = <<>>
    /\ writer_open = TRUE
    /\ pbar_open = TRUE
    /\ ckpt_saved_at = {}
    /\ metrics_saved_at = {}
    /\ epochs_cfg \in EpochsConfigs

\* One iteration of 'for epoch in range(EPOCHS)': train_epoch returned tr,
\* evaluate returned ev.
MainEpoch(tr, ev) ==
    /\ main_pc = "loop"
    /\ main_epoch < epochs_cfg
    /\ LET epoch == main_epoch
           m1 == MetricsUpdate(metrics, [train_acc |-> tr.acc, test_acc |-> ev.acc,
                                         train_loss |-> tr.loss, test_loss |-> ev.loss])
           periodic == IsMetricsSaveEpoch(epoch)
           f1 == IF periodic
                 THEN MetricsPlot(MetricsSave(main_files, m1, METRICS_JSON), m1, PLOTS_PNG)
                 ELSE main_files
           improved == IsNewBestAcc(ev.acc, best_acc)
           best1 == IF improved THEN ev.acc ELSE best_acc
           f2 == IF improved
                 THEN WriteFile(f1, MODEL_NAME,
                                [epoch |-> epoch,
                                 model_state_dict |-> epoch + 1,
                                 optimizer_state_dict |-> epoch + 1,
                                 scheduler_state_dict |-> epoch + 1,
                                 accuracy |-> best1])
                 ELSE f1
       IN  /\ metrics' = m1
           /\ best_acc' = best1
           /\ main_files' = f2
           /\ metrics_saved_at' = IF periodic THEN metrics_saved_at \cup {epoch}
                                  ELSE metrics_saved_at
           /\ ckpt_saved_at' = IF improved THEN ckpt_saved_at \cup {epoch}
                               ELSE ckpt_saved_at
    /\ main_epoch' = main_epoch + 1
    /\ UNCHANGED <<main_pc, writer_open, pbar_open>>
    /\ UNCHANGED <<trainerVars, resnetVars, dropout, call, extVars>>

\* After the loop: pbar.close(), metrics_logger.plot('final_metrics.png'),
\* writer.close().
MainFinish ==
    /\ main_pc = "loop"
    /\ main_epoch = epochs_cfg
    /\ pbar_open' = FALSE
    /\ main_files' = MetricsPlot(main_files, metrics, "final_metrics.png")
    /\ writer_open' = FALSE
    /\ main_pc' = "done"
    /\ UNCHANGED <<main_epoch, best_acc, metrics, ckpt_saved_at, metrics_saved_at>>
    /\ UNCHANGED <<trainerVars, resnetVars, dropout, call, extVars>>

MainNext ==
    \/ \E tr \in TrainResults, ev \in EvalResults : MainEpoch(tr, ev)
    \/ MainFinish

(***************************************************************************)
(* Python floats.  A double x in [0, 1) that is a multiple of 2^-57 (every *)
(* double in [2^-5, 1) is one) is the pair <<hi, lo>> with                *)
(* x = (hi * 2^28 + lo) * 2^-57 and 0 <= lo < 2^28.                        *)
(***************************************************************************)
LIMB == 2^28

\* The double literals of the source.
F64_0_0 == <<0, 0>>

F64_0_05 == <<26843545, 161061274>>

F64_0_1 == <<53687091, 53687092>>

F64_0_15 == <<80530636, 214748364>>

F64_0_2 == <<107374182, 107374184>>

F64_0_25 == <<134217728, 0>>

F64_0_3 == <<161061273, 161061272>>

F64_0_5 == <<268435456, 0>>

\* a < b
F64Less(a, b) == a[1] < b[1] \/ (a[1] = b[1] /\ a[2] < b[2])

\* How many low bits of a sum in [0, 1) do not fit the 53-bit significand.
F64DropBits(hi) ==
    IF hi < 2^25 THEN 0
    ELSE IF hi < 2^26 THEN 1
    ELSE IF hi < 2^27 THEN 2
    ELSE IF hi < 2^28 THEN 3
    ELSE 4

\* hi * 2^28 + lo rounded to 53 significant bits, ties to even (IEEE 754).
F64Round(hi, lo) ==
    LET h1   == hi + (lo \div LIMB)
        l1   == lo % LIMB
        unit == 2^F64DropBits(h1)
        rem  == l1 % unit
        base == l1 - rem
        up   == unit > 1 /\ (\/ 2 * rem > unit
                             \/ (2 * rem = unit /\ (base \div unit) % 2 = 1))
        l2   == IF up THEN base + unit ELSE base
    IN  <<h1 + (l2 \div LIMB), l2 % LIMB>>

\* a + b in double arithmetic.
F64Add(a, b) == F64Round(a[1] + b[1], a[2] + b[2])

\* Python's min(a, b): b when b < a, else a.
F64Min(a, b) == IF F64Less(b, a) THEN b ELSE a

(***************************************************************************)
(* Tensors.  A tensor is [shape, data]: data lists the elements in         *)
(* row-major order of the logical indices (0-based index tuples).          *)
(***************************************************************************)
\* Largest batch size, channel count, height and width of an input tensor.
MaxB == 2

MaxC == 2

MaxH == 2

MaxW == 2

\* Largest number of elements of an input tensor.
MaxElems == 40

\* Number of distinct fill patterns of an input tensor.
NumSeeds == 2

\* Sizes of the component axis tried: 4, and the two nearest wrong sizes.
QSizes == {3, 4, 5}

RECURSIVE Prod(_)
Prod(sh) == IF sh = <<>> THEN 1 ELSE sh[1] * Prod(Tail(sh))

\* The index tuple of the k-th element (k from 1) of a tensor of shape sh.
Unflatten(sh, k) ==
    [i \in 1..Len(sh) |-> ((k - 1) \div Prod(SubSeq(sh, i + 1, Len(sh)))) % sh[i]]

RECURSIVE FlatOffset(_, _, _)
FlatOffset(sh, idx, n) ==
    IF n = 0 THEN 0 ELSE FlatOffset(sh, idx, n - 1) * sh[n] + idx[n]

\* The element of tensor t at index tuple idx.
At(t, idx) == t.data[1 + FlatOffset(t.shape, idx, Len(t.shape))]

\* The tensor of shape sh whose element at idx is f[idx]-like: built from a
\* rule given per position k.
EmptyTensor == [shape |-> <<>>, data |-> <<>>]

\* t.permute(perm), perm 1-based: out.shape[i] = t.shape[perm[i]] and
\* out[j] = t[i] where i[perm[k]] = j[k].
Permute(t, perm) ==
    LET n  == Len(t.shape)
        sh == [i \in 1..n |-> t.shape[perm[i]]]
        inv == [m \in 1..n |-> CHOOSE k \in 1..n : perm[k] = m]
    IN  [shape |-> sh,
         data  |-> [k \in 1..Prod(sh) |->
                       LET j == Unflatten(sh, k)
                       IN  At(t, [m \in 1..n |-> j[inv[m]]])]]

\* t.reshape(sh) / t.view(sh): the same elements in the same order.
Reshape(t, sh) == [shape |-> sh, data |-> t.data]

\* The input tensors: every 5-D shape within the bounds, filled with one of
\* NumSeeds patterns of small integers.
Shapes5 ==
    {sh \in (1..MaxB) \X (1..MaxC) \X QSizes \X (1..MaxH) \X (1..MaxW) :
        Prod(sh) <= MaxElems}

InputTensor(sh, seed) ==
    [shape |-> sh,
     data  |-> [k \in 1..Prod(sh) |-> ((k * (seed + 2) + seed) % 7) - 3]]

Inputs == {InputTensor(sh, seed) : sh \in Shapes5, seed \in 0..(NumSeeds - 1)}

(***************************************************************************)
(* QuaternionDropout                                                       *)
(***************************************************************************)
\* Largest number of (b, c, h, w) positions of a tensor a mask is drawn for.
MaxMaskBits == 4

\* Probabilities a stand-alone QuaternionDropout is constructed with: 0.0,
\* 0.1 (QuaternionCIFAR10) and 0.5 (the default).
DropoutPs == {F64_0_0, F64_0_1, F64_0_5}

\* The (B, C, H, W) shape of the mask for input shape (B, C, Q, H, W).
MaskShape(sh) == <<sh[1], sh[2], sh[4], sh[5]>>

\* The outcomes of 'torch.rand(B, C, H, W) > self.p' for 0 < p < 1: any
\* boolean tensor of that shape.
Masks(sh) ==
    {[shape |-> MaskShape(sh), data |-> d] :
        d \in [1..Prod(MaskShape(sh)) -> BOOLEAN]}

\* Mutation of ExpandMask: the mask is indexed by the flat element position,
\* so it varies along the component axis.
ExpandMask_flat(mask, sh) ==
    [shape |-> sh,
     data  |-> [k \in 1..Prod(sh) |-> mask.data[((k - 1) % Len(mask.data)) + 1]]]

\* mask.unsqueeze(2).expand(B, C, Q, H, W)
ExpandMask(mask, sh) ==
    [shape |-> sh,
     data  |-> [k \in 1..Prod(sh) |->
                   LET j == Unflatten(sh, k)
                   IN  At(mask, <<j[1], j[2], j[4], j[5]>>)]]

\* 'x * mask / (1 - self.p)': the element <<n, p>> stands for n / (1 - p).
ScaleMasked(x, mask5, p) ==
    [shape |-> x.shape,
     data  |-> [k \in 1..Len(x.data) |->
                   <<x.data[k] * (IF mask5.data[k] THEN 1 ELSE 0), p>>]]

\* Mutation of DropoutPassesThrough: only p = 0 passes through.
DropoutPassesThrough_ponly(p, training) == p = F64_0_0

\* 'if not self.training or self.p == 0.0: return x'
DropoutPassesThrough(p, training) == ~training \/ p = F64_0_0

\* Mutation of DropoutReturn: the pass-through path drops the last element.
DropoutReturn_zeroed(x) ==
    [x EXCEPT !.data = [k \in 1..Len(x.data) |->
                            IF k = Len(x.data) THEN 0 ELSE x.data[k]]]

\* 'return x' of the pass-through path.
DropoutReturn(x) == x

\* QuaternionDropout.forward(x) of a module with (p, training), the random
\* draw giving mask.
DropoutForward(p, training, x, mask) ==
    IF DropoutPassesThrough(p, training)
    THEN [status |-> "returned", out |-> DropoutReturn(x)]
    ELSE IF x.shape[3] # 4
    THEN [status |-> "AssertionError", out |-> EmptyTensor]
    ELSE [status |-> "returned",
          out |-> ScaleMasked(x, ExpandMask(mask, x.shape), p)]

\* The record of a finished call of QuaternionDropout.forward.
DropoutCall(p, training, x, mask) ==
    LET r == DropoutForward(p, training, x, mask)
    IN  [op |-> "QuaternionDropout.forward", x |-> x, p |-> p,
         training |-> training,
         mask |-> IF DropoutPassesThrough(p, training) \/ x.shape[3] # 4
                  THEN EmptyTensor ELSE mask,
         status |-> r.status, out |-> r.out]

\* The inputs a mask is enumerated for.
MaskableInputs == {x \in Inputs : Prod(MaskShape(x.shape)) <= MaxMaskBits}

\* QuaternionDropout(p): a fresh module, in training mode.
DropoutConstruct(p) ==
    /\ call = <<>>
    /\ dropout' = [p |-> p, training |-> TRUE]
    /\ UNCHANGED <<trainerVars, mainVars, resnetVars, call, extVars>>

\* module.eval()
DropoutEval ==
    /\ call = <<>>
    /\ dropout' = [dropout EXCEPT !.training = FALSE]
    /\ UNCHANGED <<trainerVars, mainVars, resnetVars, call, extVars>>

\* module.train()
DropoutTrain ==
    /\ call = <<>>
    /\ dropout' = [dropout EXCEPT !.training = TRUE]
    /\ UNCHANGED <<trainerVars, mainVars, resnetVars, call, extVars>>

\* A call of the stand-alone module's forward.
DropoutForwardCall(x) ==
    /\ call = <<>>
    /\ \E mask \in Masks(x.shape) :
          call' = <<DropoutCall(dropout.p, dropout.training, x, mask)>>
    /\ UNCHANGED <<trainerVars, mainVars, resnetVars, dropout, extVars>>

\* The caller takes the result of the pending call.
Return ==
    /\ call # <<>>
    /\ call' = <<>>
    /\ UNCHANGED <<trainerVars, mainVars, resnetVars, dropout, extVars>>

(***************************************************************************)
(* Quaternion pooling: QuaternionAvgPool, QuaternionMaxPool,               *)
(* QuaternionCIFAR10.pool_spatial_only and avg_pool                        *)
(***************************************************************************)
RECURSIVE GCD(_, _)
GCD(a, b) == IF b = 0 THEN a ELSE GCD(b, a % b)

\* The rational n / d (d > 0) in lowest terms, as <<numerator, denominator>>.
Rat(n, d) ==
    LET g == GCD(IF n < 0 THEN -n ELSE n, d)
    IN  <<n \div g, d \div g>>

RECURSIVE SumOver(_, _)
SumOver(f, S) ==
    IF S = {} THEN 0
    ELSE LET e == CHOOSE e \in S : TRUE IN f[e] + SumOver(f, S \ {e})

\* The rows (or columns) of input length n under output cell i of a window of
\* size k, stride s and zero/-inf padding pad.
WindowRange(i, n, k, s, pad) ==
    {r \in 0..(n - 1) : i * s - pad <= r /\ r < i * s - pad + k}

\* The rows (or columns) of input length n under cell i of an adaptive pool
\* with out cells: floor(i * n / out) .. ceil((i + 1) * n / out) - 1.
AdaptiveRange(i, n, out) ==
    {r \in 0..(n - 1) : (i * n) \div out <= r
                        /\ r < ((i + 1) * n + out - 1) \div out}

\* Output length of a strided window: floor((n + 2 pad - k) / s) + 1.
PoolOutSize(n, k, s, pad) == (n + 2 * pad - k) \div s + 1

\* The plane (n, c) of the 4-D tensor t as a function of <<row, column>>.
Plane(t, n, c) ==
    [rc \in (0..(t.shape[3] - 1)) \X (0..(t.shape[4] - 1)) |->
        At(t, <<n, c, rc[1], rc[2]>>)]

\* 2-D pooling of a 4-D tensor (N, C, H, W).  cfg.kind is "adaptive_avg"
\* (F.adaptive_avg_pool2d to cfg.out x cfg.out), "avg" (F.avg_pool2d) or
\* "max" (nn.MaxPool2d), the last two with kernel cfg.k, stride cfg.s and
\* padding cfg.pad.  torch raises RuntimeError when an output side would be
\* smaller than 1.
Pool2d(t, cfg) ==
    LET H  == t.shape[3]
        W  == t.shape[4]
        Ho == IF cfg.kind = "adaptive_avg" THEN cfg.out
              ELSE PoolOutSize(H, cfg.k, cfg.s, cfg.pad)
        Wo == IF cfg.kind = "adaptive_avg" THEN cfg.out
              ELSE PoolOutSize(W, cfg.k, cfg.s, cfg.pad)
        sh == <<t.shape[1], t.shape[2], Ho, Wo>>
        rows(i) == IF cfg.kind = "adaptive_avg" THEN AdaptiveRange(i, H, cfg.out)
                   ELSE WindowRange(i, H, cfg.k, cfg.s, cfg.pad)
        cols(i) == IF cfg.kind = "adaptive_avg" THEN AdaptiveRange(i, W, cfg.out)
                   ELSE WindowRange(i, W, cfg.k, cfg.s, cfg.pad)
        cell(j) ==
            LET win == rows(j[3]) \X cols(j[4])
                pl  == Plane(t, j[1], j[2])
            IN  IF cfg.kind = "max"
                THEN CHOOSE m \in {pl[e] : e \in win} : \A e \in win : pl[e] <= m
                ELSE Rat(SumOver(pl, win), Cardinality(win))
    IN  IF Ho < 1 \/ Wo < 1
        THEN [status |-> "RuntimeError", out |-> EmptyTensor]
        ELSE [status |-> "returned",
              out |-> [shape |-> sh,
                       data |-> [k \in 1..Prod(sh) |-> cell(Unflatten(sh, k))]]]

\* The permutation (0, 2, 1, 3, 4), 1-based.
SwapCQ == <<1, 3, 2, 4, 5>>

\* Mutation of QuaternionPool: the pooled planes, in (B, Q, C) order, are
\* viewed as (B, C, Q, H_out, W_out) without the permute back.
QuaternionPool_noswapback(x, cfg) ==
    LET B == x.shape[1]
        C == x.shape[2]
        Q == x.shape[3]
        x_reshaped == Reshape(Permute(x, SwapCQ), <<B * Q, C, x.shape[4], x.shape[5]>>)
        pooled == Pool2d(x_reshaped, cfg)
    IN  IF Q # 4
        THEN [status |-> "AssertionError", out |-> EmptyTensor]
        ELSE IF pooled.status # "returned"
        THEN pooled
        ELSE [status |-> "returned",
              out |-> Reshape(pooled.out,
                              <<B, C, Q, pooled.out.shape[3], pooled.out.shape[4]>>)]

\* The body the four pooling operations share:
\*   B, C, Q, H, W = x.shape;  assert Q == 4
\*   x_reshaped = x.permute(0, 2, 1, 3, 4).reshape(B * Q, C, H, W)
\*   pooled = <2-D pooling>(x_reshaped)
\*   return pooled.view(B, Q, C, H_out, W_out).permute(0, 2, 1, 3, 4)
QuaternionPool(x, cfg) ==
    LET B == x.shape[1]
        C == x.shape[2]
        Q == x.shape[3]
        x_reshaped == Reshape(Permute(x, SwapCQ), <<B * Q, C, x.shape[4], x.shape[5]>>)
        pooled == Pool2d(x_reshaped, cfg)
    IN  IF Q # 4
        THEN [status |-> "AssertionError", out |-> EmptyTensor]
        ELSE IF pooled.status # "returned"
        THEN pooled
        ELSE [status |-> "returned",
              out |-> Permute(Reshape(pooled.out,
                                      <<B, Q, C, pooled.out.shape[3], pooled.out.shape[4]>>),
                              SwapCQ)]

\* The record of a finished pooling call.
PoolCall(op, x, cfg) ==
    LET r == QuaternionPool(x, cfg)
    IN  [op |-> op, x |-> x, cfg |-> cfg, status |-> r.status, out |-> r.out]

\* The QuaternionAvgPool modules the source constructs: QuaternionAvgPool()
\* (kernel_size None, written 0) and QuaternionAvgPool(kernel_size=2, stride=2).
AvgPoolModules == {[kernel_size |-> 0, stride |-> 0], [kernel_size |-> 2, stride |-> 2]}

\* QuaternionAvgPool.forward: global average pooling when kernel_size is
\* None, else F.avg_pool2d(kernel_size, stride).
AvgPoolCfg(m) ==
    IF m.kernel_size = 0
    THEN [kind |-> "adaptive_avg", out |-> 1]
    ELSE [kind |-> "avg", k |-> m.kernel_size, s |-> m.stride, pad |-> 0]

QuaternionAvgPoolForward(m, x) ==
    /\ call = <<>>
    /\ call' = <<PoolCall("QuaternionAvgPool.forward", x, AvgPoolCfg(m))>>
    /\ UNCHANGED <<trainerVars, mainVars, resnetVars, dropout, extVars>>

\* QuaternionMaxPool.forward with the default nn.MaxPool2d(2, 2, padding=0).
QuaternionMaxPoolForward(x) ==
    /\ call = <<>>
    /\ call' = <<PoolCall("QuaternionMaxPool.forward", x,
                          [kind |-> "max", k |-> 2, s |-> 2, pad |-> 0])>>
    /\ UNCHANGED <<trainerVars, mainVars, resnetVars, dropout, extVars>>

\* QuaternionCIFAR10.pool_spatial_only: self.pool = nn.MaxPool2d(2, 2, padding=1).
PoolSpatialOnly(x) ==
    /\ call = <<>>
    /\ call' = <<PoolCall("QuaternionCIFAR10.pool_spatial_only", x,
                          [kind |-> "max", k |-> 2, s |-> 2, pad |-> 1])>>
    /\ UNCHANGED <<trainerVars, mainVars, resnetVars, dropout, extVars>>

\* QuaternionCIFAR10.avg_pool(x, num): F.adaptive_avg_pool2d(.., (num, num)).
AvgPoolNum(x, num) ==
    /\ call = <<>>
    /\ call' = <<PoolCall("QuaternionCIFAR10.avg_pool", x,
                          [kind |-> "adaptive_avg", out |-> num])>>
    /\ UNCHANGED <<trainerVars, mainVars, resnetVars, dropout, extVars>>

(***************************************************************************)
(* QResNet34: the dropout-rate schedule                                    *)
(***************************************************************************)
\* Largest number of update_dropout_rates calls the model makes.
MaxUpdateCalls == 10

\* self.dropout_rates['initial']
InitialRates == <<F64_0_1, F64_0_15, F64_0_2, F64_0_2, F64_0_25>>

\* self.dropout_rates['increment']
Increment == F64_0_05

\* num_blocks of conv2_x, conv3_x, conv4_x, conv5_x (stages 0..3).
NumBlocks == <<3, 4, 6, 3>>

Stages == 0..3

BlockIds == {<<k, i>> : k \in Stages, i \in 0..5} \ {<<k, i>> \in Stages \X (0..5) : i >= NumBlocks[k + 1]}

\* The object identity of block <<k, i>>'s dropout1 (w = 1) or dropout2 (w = 2),
\* in construction order; 0 is the classifier's nn.Dropout.
ModuleId(k, i, w) == 2 * ((IF k = 0 THEN 0 ELSE IF k = 1 THEN 3
                           ELSE IF k = 2 THEN 7 ELSE 13) + i) + w

\* 'QuaternionDropout(p=dropout_rate) if dropout_rate > 0 else nn.Identity()'
\* A fresh module is in training mode; nn.Identity has no p.
MakeBlockDropout(id, dropout_rate) ==
    IF F64Less(F64_0_0, dropout_rate)
    THEN [id |-> id, type |-> "QuaternionDropout", p |-> dropout_rate]
    ELSE [id |-> id, type |-> "Identity", p |-> <<-1, -1>>]

\* QuaternionBasicBlock.__init__: the two dropout modules of block <<k, i>>.
MakeBlock(k, i, dropout_rate) ==
    [dropout1 |-> MakeBlockDropout(ModuleId(k, i, 1), dropout_rate),
     dropout2 |-> MakeBlockDropout(ModuleId(k, i, 2), dropout_rate)]

\* QResNet34._make_layer for every stage: each block of stage k is built with
\* current_rates[k].
MakeLayers(rates) == [b \in BlockIds |-> MakeBlock(b[1], b[2], rates[b[1] + 1])]

\* QResNet34.__init__
QResNetInit ==
    /\ current_rates = InitialRates
    /\ blocks = MakeLayers(InitialRates)
    /\ classifier_dropout = [id |-> 0, type |-> "Dropout", p |-> F64_0_3]
    /\ model_training = TRUE
    /\ update_calls = 0

\* Mutation of NewRate: the increment is added without the clamp.
NewRate_noclamp(r) == F64Add(r, Increment)

\* 'min(0.5, self.current_rates[i] + self.dropout_rates['increment'])'
NewRate(r) == F64Min(F64_0_5, F64Add(r, Increment))

\* Mutation of UpdatedRates: range(len(...) - 1), the last entry is skipped.
UpdatedRates_skiplast(rates) ==
    [i \in 1..Len(rates) |-> IF i < Len(rates) THEN NewRate(rates[i]) ELSE rates[i]]

\* 'for i in range(len(self.current_rates))': every entry is replaced.
UpdatedRates(rates) == [i \in 1..Len(rates) |-> NewRate(rates[i])]

\* Mutation of UpdateBlockDropout: dropout2 is left alone.
UpdateBlockDropout_first(blk, rate_idx, rates) ==
    [b \in DOMAIN blk |->
        IF b[1] = rate_idx
        THEN [blk[b] EXCEPT !.dropout1.p = rates[rate_idx + 1]]
        ELSE blk[b]]

\* QResNet34._update_block_dropout(stage rate_idx): every layer of the stage
\* is a QuaternionBasicBlock; the p of its dropout1 and dropout2 is assigned.
UpdateBlockDropout(blk, rate_idx, rates) ==
    [b \in DOMAIN blk |->
        IF b[1] = rate_idx
        THEN [blk[b] EXCEPT !.dropout1.p = rates[rate_idx + 1],
                            !.dropout2.p = rates[rate_idx + 1]]
        ELSE blk[b]]

\* QResNet34.update_dropout_rates
UpdateDropoutRates ==
    /\ call = <<>>
    /\ update_calls < MaxUpdateCalls
    /\ LET rates == UpdatedRates(current_rates)
           b0 == UpdateBlockDropout(blocks, 0, rates)
           b1 == UpdateBlockDropout(b0, 1, rates)
           b2 == UpdateBlockDropout(b1, 2, rates)
           b3 == UpdateBlockDropout(b2, 3, rates)
       IN  /\ current_rates' = rates
           /\ blocks' = b3
           /\ classifier_dropout' =
                  IF classifier_dropout.type = "Dropout"
                  THEN [classifier_dropout EXCEPT !.p = rates[5]]
                  ELSE classifier_dropout
    /\ update_calls' = update_calls + 1
    /\ UNCHANGED <<model_training, call>>
    /\ UNCHANGED <<trainerVars, mainVars, dropout, extVars>>

\* model.train(), as train_epoch does.
ModelTrain ==
    /\ call = <<>>
    /\ model_training' = TRUE
    /\ UNCHANGED <<current_rates, blocks, classifier_dropout, update_calls, call>>
    /\ UNCHANGED <<trainerVars, mainVars, dropout, extVars>>

\* model.eval(), as evaluate does.
ModelEval ==
    /\ call = <<>>
    /\ model_training' = FALSE
    /\ UNCHANGED <<current_rates, blocks, classifier_dropout, update_calls, call>>
    /\ UNCHANGED <<trainerVars, mainVars, dropout, extVars>>

\* Activations reaching a block's dropout: QConv2D / IQBN outputs, which have
\* 4 components; batch size 1 and 1 x 1 maps, up to MaxC channels.
BlockInputs == {InputTensor(<<1, c, 4, 1, 1>>, 0) : c \in 1..MaxC}

\* QuaternionBasicBlock.forward reaching 'out = self.dropout1(out)' (w = 1) or
\* 'out = self.dropout2(out)' (w = 2) of block b with activation x.
BlockDropoutForward(b, w, x) ==
    /\ call = <<>>
    /\ LET m == IF w = 1 THEN blocks[b].dropout1 ELSE blocks[b].dropout2
       IN  IF m.type = "Identity"
           THEN call' = <<[op |-> "Identity.forward", x |-> x, p |-> m.p,
                           training |-> model_training, mask |-> EmptyTensor,
                           status |-> "returned", out |-> x]>>
           ELSE \E mask \in Masks(x.shape) :
                   call' = <<DropoutCall(m.p, model_training, x, mask)>>
    /\ UNCHANGED <<trainerVars, mainVars, resnetVars, dropout, extVars>>

ResNetNext ==
    \/ UpdateDropoutRates
    \/ ModelTrain
    \/ ModelEval
    \/ \E b \in BlockIds, w \in {1, 2}, x \in BlockInputs : BlockDropoutForward(b, w, x)
    \/ Return

\* The stand-alone structural operations.
QOpsNext ==
    \/ \E p \in DropoutPs : DropoutConstruct(p)
    \/ DropoutEval
    \/ DropoutTrain
    \/ \E x \in MaskableInputs : DropoutForwardCall(x)
    \/ \E m \in AvgPoolModules, x \in Inputs : QuaternionAvgPoolForward(m, x)
    \/ \E x \in Inputs : QuaternionMaxPoolForward(x)
    \/ \E x \in Inputs : PoolSpatialOnly(x)
    \/ \E x \in Inputs, num \in {1, 2} : AvgPoolNum(x, num)
    \/ Return

(***************************************************************************)
(* Trainer.train_one_epoch, step by step                                   *)
(***************************************************************************)
\* Largest len(self.train_dataloader).
MaxBatches == 3

\* The values total_loss.item() takes.
LossValues == {1, 2}

\* The Trainers constructed: grad_clip_val 0 (0.0) or 1 (the default 1.0),
\* scheduler set or None, and the length of train_dataloader.
EpochCfgs ==
    [grad_clip_val : {0, 1}, scheduler : BOOLEAN, num_batches : 0..MaxBatches]

\* Mutation of BodySteps: the gradients are clipped whatever grad_clip_val is.
BodySteps_clipalways(cfg, batch_idx) ==
    <<"zero_grad", "to_device", "forward", "loss", "backward", "clip",
      "optimizer_step">>
        \o (IF cfg.scheduler THEN <<"scheduler_step">> ELSE <<>>)
        \o <<"accumulate">>
        \o (IF batch_idx % 10 = 0 THEN <<"postfix">> ELSE <<>>)

\* The statements of the try body, in source order, that run for batch
\* batch_idx when none raises.
BodySteps(cfg, batch_idx) ==
    <<"zero_grad", "to_device", "forward", "loss", "backward">>
        \o (IF cfg.grad_clip_val > 0 THEN <<"clip">> ELSE <<>>)
        \o <<"optimizer_step">>
        \o (IF cfg.scheduler THEN <<"scheduler_step">> ELSE <<>>)
        \o <<"accumulate">>
        \o (IF batch_idx % 10 = 0 THEN <<"postfix">> ELSE <<>>)

\* The position of step in a sequence of steps (0 when absent).
IndexOf(steps, step) ==
    IF \E i \in 1..Len(steps) : steps[i] = step
    THEN CHOOSE i \in 1..Len(steps) : steps[i] = step
    ELSE 0

\* The step after pc in the try body; "fetch" after its last step (the for
\* statement asks the dataloader for the next batch).
StepAfter(cfg, batch_idx, pc) ==
    LET steps == BodySteps(cfg, batch_idx)
        i == IndexOf(steps, pc)
    IN  IF i < Len(steps) THEN steps[i + 1] ELSE "fetch"

\* Mutation of AfterExcept: the except clause logs and goes on with the next
\* batch.
AfterExcept_continue(batch_idx, exc) ==
    [pc |-> "fetch", batch |-> batch_idx + 1, log |-> <<batch_idx>>, result |-> <<>>]

\* 'except Exception as e: print(f"Error in batch {batch_idx}:") ... raise e'
AfterExcept(batch_idx, exc) ==
    [pc |-> "raised", batch |-> batch_idx, log |-> <<batch_idx>>,
     result |-> <<[kind |-> "raised", exc |-> exc]>>]

\* Trainer.__init__ with the default grad_clip_val and a scheduler.
EpochInit ==
    /\ ep_cfg = [grad_clip_val |-> 1, scheduler |-> TRUE, num_batches |-> MaxBatches]
    /\ ep_pc = "idle"
    /\ ep_batch = 0
    /\ ep_loss = 0
    /\ ep_metrics = 0
    /\ ep_result = <<>>
    /\ ep_trace = <<>>
    /\ ep_log = <<>>
    /\ ep_raised = <<>>

InEpoch == ep_pc \notin {"idle", "returned", "raised"}

\* Trainer(...): another Trainer, no epoch running.
TrainerConstruct(cfg) ==
    /\ ~InEpoch
    /\ ep_cfg' = cfg
    /\ ep_pc' = "idle"
    /\ ep_batch' = 0
    /\ ep_loss' = 0
    /\ ep_metrics' = 0
    /\ ep_result' = <<>>
    /\ ep_trace' = <<>>
    /\ ep_log' = <<>>
    /\ ep_raised' = <<>>
    /\ UNCHANGED <<trainerVars, mainVars, resnetVars, dropout, call, dataVars, intVars, cfgVars>>

\* train_one_epoch is called: model.train(), epoch_metrics zeroed, the
\* progress bar wraps enumerate(self.train_dataloader).
EpochStart ==
    /\ ~InEpoch
    /\ ep_pc' = "fetch"
    /\ ep_batch' = 0
    /\ ep_loss' = 0
    /\ ep_metrics' = 0
    /\ ep_result' = <<>>
    /\ ep_trace' = <<>>
    /\ ep_log' = <<>>
    /\ ep_raised' = <<>>
    /\ UNCHANGED ep_cfg
    /\ UNCHANGED <<trainerVars, mainVars, resnetVars, dropout, call, dataVars, intVars, cfgVars>>

\* 'for batch_idx, batch in pbar': the dataloader yields batch ep_batch, or
\* is exhausted and the loop ends.
FetchBatch ==
    /\ ep_pc = "fetch"
    /\ IF ep_batch < ep_cfg.num_batches
       THEN /\ ep_trace' = Append(ep_trace, <<ep_batch, "fetch">>)
            /\ ep_pc' = BodySteps(ep_cfg, ep_batch)[1]
       ELSE /\ ep_trace' = ep_trace
            /\ ep_pc' = "after_loop"
    /\ UNCHANGED <<ep_cfg, ep_batch, ep_loss, ep_metrics, ep_result, ep_log, ep_raised>>
    /\ UNCHANGED <<trainerVars, mainVars, resnetVars, dropout, call, dataVars, intVars, cfgVars>>

\* The dataloader raises while producing batch ep_batch.  The for statement
\* is outside the try, so the exception leaves train_one_epoch unlogged.
FetchRaise ==
    /\ ep_pc = "fetch"
    /\ ep_batch < ep_cfg.num_batches
    /\ ep_trace' = Append(ep_trace, <<ep_batch, "fetch">>)
    /\ ep_pc' = "raised"
    /\ ep_result' = <<[kind |-> "raised", exc |-> <<ep_batch, "fetch">>]>>
    /\ ep_raised' = <<<<ep_batch, "fetch">>>>
    /\ UNCHANGED <<ep_cfg, ep_batch, ep_loss, ep_metrics, ep_log>>
    /\ UNCHANGED <<trainerVars, mainVars, resnetVars, dropout, call, dataVars, intVars, cfgVars>>

\* The statement at ep_pc of the try body runs to its end.  "loss" binds
\* total_loss, "accumulate" adds it to epoch_metrics; after the last
\* statement the loop goes on with batch_idx + 1.
BodyStep ==
    /\ ep_pc \in {BodySteps(ep_cfg, ep_batch)[i] :
                      i \in 1..Len(BodySteps(ep_cfg, ep_batch))}
    /\ ep_trace' = Append(ep_trace, <<ep_batch, ep_pc>>)
    /\ ep_pc' = StepAfter(ep_cfg, ep_batch, ep_pc)
    /\ ep_batch' = IF ep_pc' = "fetch" THEN ep_batch + 1 ELSE ep_batch
    /\ IF ep_pc = "loss"
       THEN ep_loss' \in LossValues
       ELSE ep_loss' = ep_loss
    /\ ep_metrics' = IF ep_pc = "accumulate" THEN ep_metrics + ep_loss ELSE ep_metrics
    /\ UNCHANGED <<ep_cfg, ep_result, ep_log, ep_raised>>
    /\ UNCHANGED <<trainerVars, mainVars, resnetVars, dropout, call, dataVars, intVars, cfgVars>>

\* The statement at ep_pc of the try body raises an Exception: the except
\* clause prints the batch index and raises the same exception.
BodyRaise ==
    /\ ep_pc \in {BodySteps(ep_cfg, ep_batch)[i] :
                      i \in 1..Len(BodySteps(ep_cfg, ep_batch))}
    /\ ep_trace' = Append(ep_trace, <<ep_batch, ep_pc>>)
    /\ LET h == AfterExcept(ep_batch, <<ep_batch, ep_pc>>)
       IN  /\ ep_pc' = h.pc
           /\ ep_batch' = h.batch
           /\ ep_log' = ep_log \o h.log
           /\ ep_result' = h.result
    /\ ep_raised' = <<<<ep_batch, ep_pc>>>>
    /\ UNCHANGED <<ep_cfg, ep_loss, ep_metrics>>
    /\ UNCHANGED <<trainerVars, mainVars, resnetVars, dropout, call, dataVars, intVars, cfgVars>>

\* After the loop: 'num_batches = len(self.train_dataloader)' and the
\* averages v / num_batches, the metric <<v, num_batches>>; the division
\* raises ZeroDivisionError for an empty dataloader.
EpochReturn ==
    /\ ep_pc = "after_loop"
    /\ IF ep_cfg.num_batches = 0
       THEN /\ ep_pc' = "raised"
            /\ ep_result' = <<[kind |-> "raised", exc |-> <<-1, "ZeroDivisionError">>]>>
       ELSE /\ ep_pc' = "returned"
            /\ ep_result' = <<[kind |-> "returned",
                               metrics |-> <<ep_metrics, ep_cfg.num_batches>>]>>
    /\ UNCHANGED <<ep_cfg, ep_batch, ep_loss, ep_metrics, ep_trace, ep_log, ep_raised>>
    /\ UNCHANGED <<trainerVars, mainVars, resnetVars, dropout, call, dataVars, intVars, cfgVars>>

EpochNext ==
    \/ \E cfg \in EpochCfgs : TrainerConstruct(cfg)
    \/ EpochStart
    \/ FetchBatch
    \/ FetchRaise
    \/ BodyStep
    \/ BodyRaise
    \/ EpochReturn

(***************************************************************************)
(* Random generators.  MultiAugmentDataset shuffles with its own           *)
(* np.random.RandomState(seed), a Mersenne Twister (MT19937) seeded by the *)
(* integer seed; shuffle draws, for i = n-1 down to 1, an index j in 0..i  *)
(* by masking an output word to the bits of i and rejecting values above   *)
(* i, and swaps x[i] and x[j].  The transforms and Cutout draw from the    *)
(* global torch generator; its state is written [seed, count]: the state   *)
(* reached from manual_seed(seed) by count draws, and the value of a draw  *)
(* is written as the state it was drawn in.                                *)
(***************************************************************************)
\* Largest base dataset, besides the 10 samples of the scenario of spec.md.
MaxBase == 3

\* Largest augmentations_per_image.
MaxAug == 2

\* Largest number of draws other code makes from the global torch generator
\* before the state stops being advanced.
MaxOtherDraws == 4

\* Largest n_holes of a stand-alone Cutout.
MaxHoles == 2

\* The seeds a dataset is built with: 0 and the default 42.
Seeds == {0, 42}

\* The low 6 bits of the first 96 output words of np.random.RandomState(seed).
RandomStateBits(seed) ==
    IF seed = 0
    THEN <<
        44, 47, 53, 0, 3, 59, 3, 39, 9, 19, 21, 50, 36, 23, 6, 24,
        24, 12, 58, 1, 38, 39, 23, 46, 24, 17, 37, 25, 13, 8, 9, 20,
        51, 16, 51, 5, 62, 15, 47, 0, 18, 35, 24, 49, 51, 29, 19, 19,
        14, 39, 32, 1, 9, 57, 63, 32, 31, 10, 52, 23, 35, 62, 11, 50,
        55, 28, 34, 0, 0, 36, 53, 5, 38, 40, 52, 17, 15, 4, 41, 42,
        58, 31, 56, 1, 1, 39, 41, 57, 35, 38, 55, 11, 46, 18, 27, 0 >>
    ELSE <<
        38, 51, 28, 14, 42, 7, 60, 20, 38, 57, 18, 22, 10, 10, 23, 52,
        35, 39, 23, 2, 21, 52, 1, 23, 43, 29, 37, 1, 63, 59, 20, 32,
        11, 57, 21, 60, 43, 24, 48, 26, 58, 62, 41, 63, 27, 59, 15, 14,
        61, 61, 46, 61, 50, 43, 54, 51, 63, 56, 2, 36, 50, 6, 20, 8,
        38, 17, 3, 24, 59, 13, 49, 57, 8, 25, 52, 1, 19, 27, 46, 59,
        6, 43, 60, 7, 46, 34, 13, 16, 35, 49, 39, 3, 1, 61, 5, 53 >>

\* The smallest 2^k - 1 that is >= max, from m upwards.
RECURSIVE MaskFrom(_, _)
MaskFrom(m, max) == IF m >= max THEN m ELSE MaskFrom(2 * m + 1, max)

\* numpy's bounded draw: words from position pos on are masked until one is
\* <= max.  The result is the value and the position of the next word.
RECURSIVE RandomInterval(_, _, _)
RandomInterval(seed, pos, max) ==
    IF max = 0
    THEN [v |-> 0, pos |-> pos]
    ELSE LET r == RandomStateBits(seed)[pos] % (MaskFrom(1, max) + 1)
         IN  IF r <= max THEN [v |-> r, pos |-> pos + 1]
             ELSE RandomInterval(seed, pos + 1, max)

\* x with the elements at 0-based positions i and j exchanged.
Swap(x, i, j) ==
    [k \in 1..Len(x) |-> IF k = i + 1 THEN x[j + 1]
                          ELSE IF k = j + 1 THEN x[i + 1] ELSE x[k]]

\* RandomState.shuffle from position i down, the next word being at pos.
RECURSIVE ShuffleFrom(_, _, _, _)
ShuffleFrom(seed, x, i, pos) ==
    IF i < 1 THEN x
    ELSE LET d == RandomInterval(seed, pos, i)
         IN  ShuffleFrom(seed, Swap(x, i, d.v), i - 1, d.pos)

\* 'self.rng.shuffle(self.indices)' of a fresh RandomState(seed).
Shuffle(seed, x) == ShuffleFrom(seed, x, Len(x) - 1, 1)

\* torch.manual_seed(seed)
TorchManualSeed(seed) == [seed |-> seed, count |-> 0]

\* n draws from the global torch generator in state g: the values and the
\* state after them.
TorchDraw(g, n) ==
    [values |-> [k \in 1..n |-> [seed |-> g.seed, count |-> g.count + k - 1]],
     rng    |-> [seed |-> g.seed, count |-> g.count + n]]

(***************************************************************************)
(* MultiAugmentDataset and Cutout                                          *)
(***************************************************************************)
\* len(dataset) of the base datasets wrapped.
BaseSizes == (1..MaxBase) \cup {10}

\* 'self.dataset[idx]' of a base dataset built with transform=None: the
\* image and the label of sample idx.
BaseSample(idx) == [image |-> idx, label |-> idx % 10]

\* Mutation of ExtendIndices: every base index is listed once.
ExtendIndices_once(base_len, augmentations_per_image) ==
    [k \in 1..base_len |-> k - 1]

\* 'for idx in range(len(dataset)): self.indices.extend([idx] * augmentations_per_image)'
ExtendIndices(base_len, augmentations_per_image) ==
    [k \in 1..(base_len * augmentations_per_image) |->
        (k - 1) \div augmentations_per_image]

\* MultiAugmentDataset.__init__; a test-mode dataset has no index array.
MakeDataset(base_len, augmentations_per_image, train, seed) ==
    [train |-> train,
     augmentations_per_image |-> augmentations_per_image,
     seed |-> seed,
     base_len |-> base_len,
     indices |-> IF train
                 THEN Shuffle(seed, ExtendIndices(base_len, augmentations_per_image))
                 ELSE <<>>]

\* MultiAugmentDataset.__len__
DatasetLen(d) ==
    IF d.train THEN d.base_len * d.augmentations_per_image ELSE d.base_len

\* Mutation of CutoutRestore: the state after the draws is left in place.
CutoutRestore_none(state, after) == after

\* 'torch.set_rng_state(state)': the generator is put back in state.
CutoutRestore(state, after) == state

\* Cutout(n_holes, length).__call__(img) with the generator in state g.  Each
\* hole draws y and x; the masked image is written as the image and its
\* holes.
CutoutApply(n_holes, length, img, g) ==
    LET state == g
        d == TorchDraw(g, 2 * n_holes)
        holes == [n \in 1..n_holes |->
                     [y |-> d.values[2 * n - 1], x |-> d.values[2 * n],
                      half |-> length \div 2]]
    IN  [img |-> [image |-> img, holes |-> holes],
         rng |-> CutoutRestore(state, d.rng)]

\* weak_transform: RandomCrop (2 draws), RandomHorizontalFlip (1 draw),
\* ToTensor, Normalize.
WeakTransform(image, g) ==
    LET d == TorchDraw(g, 3)
    IN  [img |-> [path |-> "weak", image |-> image, draws |-> d.values, holes |-> <<>>],
         rng |-> d.rng]

\* strong_transform: RandomCrop (2 draws), RandomHorizontalFlip (1 draw),
\* AutoAugment (3 draws), ToTensor, Normalize, Cutout(n_holes=1, length=16).
StrongTransform(image, g) ==
    LET d == TorchDraw(g, 6)
        c == CutoutApply(1, 16, image, d.rng)
    IN  [img |-> [path |-> "strong", image |-> image, draws |-> d.values,
                  holes |-> c.img.holes],
         rng |-> c.rng]

\* test_transform: ToTensor, Normalize; no draw.
TestTransform(image, g) ==
    [img |-> [path |-> "test", image |-> image, draws |-> <<>>, holes |-> <<>>],
     rng |-> g]

\* Mutation of IsWeakIndex: only index 0 is weak.
IsWeakIndex_zero(index, augmentations_per_image) == index = 0

\* 'if index % self.augmentations_per_image == 0'
IsWeakIndex(index, augmentations_per_image) == index % augmentations_per_image = 0

\* Mutation of ItemRng: the generator is not reseeded.
ItemRng_global(index, g) == g

\* 'torch.manual_seed(index)' of __getitem__.
ItemRng(index, g) == TorchManualSeed(index)

\* MultiAugmentDataset.__getitem__(index) with the global generator in state
\* g: the (transformed, label) pair returned, the base index read, and the
\* generator state left behind.
GetItem(d, index, g) ==
    IF d.train
    THEN LET real_idx == d.indices[index + 1]
             sample == BaseSample(real_idx)
             g1 == ItemRng(index, g)
             t == IF IsWeakIndex(index, d.augmentations_per_image)
                  THEN WeakTransform(sample.image, g1)
                  ELSE StrongTransform(sample.image, g1)
         IN  [transformed |-> t.img, label |-> sample.label, real_idx |-> real_idx,
              rng |-> t.rng]
    ELSE LET sample == BaseSample(index)
             t == TestTransform(sample.image, g)
         IN  [transformed |-> t.img, label |-> sample.label, real_idx |-> index,
              rng |-> t.rng]

\* get_data_loaders as main() calls it: set_random_seeds(42) and a training
\* dataset with augmentations_per_image = 1 and seed 42.
DatasetInit ==
    /\ ds = MakeDataset(MaxBase, 1, TRUE, 42)
    /\ torch_rng = TorchManualSeed(42)

\* MultiAugmentDataset(dataset, augmentations_per_image, train, seed)
DatasetConstruct(base_len, augmentations_per_image, train, seed) ==
    /\ call = <<>>
    /\ ds' = MakeDataset(base_len, augmentations_per_image, train, seed)
    /\ UNCHANGED torch_rng
    /\ UNCHANGED <<trainerVars, mainVars, resnetVars, dropout, call, epochVars, intVars, cfgVars>>

\* A call of ds[index], index within range(len(ds)).
GetItemCall(index) ==
    /\ call = <<>>
    /\ index < DatasetLen(ds)
    /\ LET r == GetItem(ds, index, torch_rng)
       IN  /\ call' = <<[op |-> "MultiAugmentDataset.__getitem__", index |-> index,
                         rng_before |-> torch_rng, transformed |-> r.transformed,
                         label |-> r.label, real_idx |-> r.real_idx]>>
           /\ torch_rng' = r.rng
    /\ UNCHANGED ds
    /\ UNCHANGED <<trainerVars, mainVars, resnetVars, dropout, epochVars, intVars, cfgVars>>

\* A call of len(ds).
DatasetLenCall ==
    /\ call = <<>>
    /\ call' = <<[op |-> "MultiAugmentDataset.__len__", out |-> DatasetLen(ds)]>>
    /\ UNCHANGED <<ds, torch_rng>>
    /\ UNCHANGED <<trainerVars, mainVars, resnetVars, dropout, epochVars, intVars, cfgVars>>

\* A stand-alone Cutout(n_holes, 16) applied to an image.
CutoutCall(n_holes, img) ==
    /\ call = <<>>
    /\ LET r == CutoutApply(n_holes, 16, img, torch_rng)
       IN  /\ call' = <<[op |-> "Cutout.__call__", n_holes |-> n_holes,
                         rng_before |-> torch_rng, out |-> r.img]>>
           /\ torch_rng' = r.rng
    /\ UNCHANGED ds
    /\ UNCHANGED <<trainerVars, mainVars, resnetVars, dropout, epochVars, intVars, cfgVars>>

\* Other code reseeds the global generator (set_random_seeds).
TorchReseed(seed) ==
    /\ call = <<>>
    /\ torch_rng' = TorchManualSeed(seed)
    /\ UNCHANGED ds
    /\ UNCHANGED <<trainerVars, mainVars, resnetVars, dropout, call, epochVars, intVars, cfgVars>>

\* Other code draws from the global generator (torch.rand of a dropout).
TorchOtherDraw ==
    /\ call = <<>>
    /\ torch_rng.count < MaxOtherDraws
    /\ torch_rng' = TorchDraw(torch_rng, 1).rng
    /\ UNCHANGED ds
    /\ UNCHANGED <<trainerVars, mainVars, resnetVars, dropout, call, epochVars, intVars, cfgVars>>

DataNext ==
    \/ \E n \in BaseSizes, m \in 1..MaxAug, train \in BOOLEAN, seed \in Seeds :
           DatasetConstruct(n, m, train, seed)
    \/ \E index \in 0..(10 * MaxAug) : GetItemCall(index)
    \/ DatasetLenCall
    \/ \E n_holes \in 0..MaxHoles, img \in 0..1 : CutoutCall(n_holes, img)
    \/ \E seed \in Seeds : TorchReseed(seed)
    \/ TorchOtherDraw
    \/ Return

(***************************************************************************)
(* handle_keyboard_interrupt, the SIGINT handler of the classification     *)
(* script.  It runs in the main thread in place of the interrupted code,   *)
(* so its position is kept in main_pc: "handler_bars", "handler_writer",   *)
(* "handler_checkpoint", "handler_exit", and "exited" after sys.exit(0).   *)
(***************************************************************************)
\* The names the handler looks up with "'name' in globals()".
HandlerNames == {"pbar", "train_pbar", "test_pbar", "writer", "model", "optimizer"}

\* The names bound at module level of the script: its imports, constants,
\* classes and functions.  pbar, writer, model and optimizer are locals of
\* main(), train_pbar is a local of train_epoch.
ModuleGlobals ==
    {"torch", "nn", "optim", "torchvision", "transforms", "DataLoader",
     "SummaryWriter", "F", "json", "plt", "np", "Path", "IQBN", "sys", "os",
     "QConv2D", "QDense", "QConv", "QPReLU", "QREReLU", "QSiLU", "tqdm", "signal",
     "gc", "OrderedDict", "math", "random", "handle_keyboard_interrupt",
     "count_parameters", "BATCH_SIZE", "NUM_CLASSES", "EPOCHS", "LEARNING_RATE",
     "BETA_1", "BETA_2", "EPSILON", "L1_REG", "L2_REG", "DATA_AUGMENTATION",
     "DEVICE", "SAVE_DIR", "MODEL_NAME", "L1Regularization", "MetricsLogger",
     "QuaternionDropout", "QuaternionAvgPool", "QuaternionMaxPool", "BasicBlock",
     "ResNet34", "BottleneckBlock", "TransitionBlock", "DenseBlock",
     "QuaternionDenseNet", "create_quaternion_densenet", "QuaternionBasicBlock",
     "QResNet34", "QuaternionCIFAR10", "seed_worker", "set_random_seeds",
     "MultiAugmentDataset", "Cutout", "get_data_loaders", "train_epoch",
     "evaluate", "main"}

\* The progress bars the first try block closes, in source order.
ProgressBars == <<"pbar", "train_pbar", "test_pbar">>

\* The first try block when the close() of ProgressBars[fail] raises (fail =
\* 0: none raises): the bars that are globals and come before the failing
\* one are closed, the except clause skips the rest of the block.
ClosedBars(g, fail) ==
    {ProgressBars[i] : i \in {j \in 1..Len(ProgressBars) :
                                /\ ProgressBars[j] \in g
                                /\ (fail = 0 \/ j < fail)}}

\* Mutation of AfterCleanupFailure: the exception of a cleanup step leaves
\* the handler.
AfterCleanupFailure_propagate(next_pc) == "raised"

\* 'except Exception as e: print(...)': the handler goes on with the
\* statement after the try block.
AfterCleanupFailure(next_pc) == next_pc

\* No signal has arrived.
HandlerInit ==
    /\ int_globals = {}
    /\ int_attempted = {}
    /\ int_failed = {}
    /\ int_closed = {}
    /\ cwd_files = <<>>

\* SIGINT arrives while main() runs its training loop; globals() of the
\* module holds the names g.
Interrupt(g) ==
    /\ main_pc = "loop"
    /\ main_pc' = "handler_bars"
    /\ int_globals' = g \cap HandlerNames
    /\ UNCHANGED <<int_attempted, int_failed, int_closed, cwd_files>>
    /\ UNCHANGED <<main_epoch, best_acc, metrics, main_files, writer_open, pbar_open,
                   ckpt_saved_at, metrics_saved_at>>
    /\ UNCHANGED <<trainerVars, resnetVars, dropout, call, epochVars, dataVars, cfgVars>>

\* The first try block: pbar.close(), train_pbar.close(), test_pbar.close(),
\* each only if the name is a global; a close() may raise.
CloseProgressBars ==
    /\ main_pc = "handler_bars"
    /\ \E fail \in 0..Len(ProgressBars) :
          /\ fail # 0 => ProgressBars[fail] \in int_globals
          /\ int_closed' = int_closed \cup ClosedBars(int_globals, fail)
          /\ int_failed' = IF fail # 0 THEN int_failed \cup {"progress_bars"}
                           ELSE int_failed
          /\ main_pc' = IF fail # 0 THEN AfterCleanupFailure("handler_writer")
                        ELSE "handler_writer"
    /\ int_attempted' = int_attempted \cup {"progress_bars"}
    /\ UNCHANGED <<int_globals, cwd_files>>
    /\ UNCHANGED <<main_epoch, best_acc, metrics, main_files, writer_open, pbar_open,
                   ckpt_saved_at, metrics_saved_at>>
    /\ UNCHANGED <<trainerVars, resnetVars, dropout, call, epochVars, dataVars, cfgVars>>

\* The second try block: writer.close() if writer is a global.
CloseWriter ==
    /\ main_pc = "handler_writer"
    /\ \E fail \in BOOLEAN :
          /\ fail => "writer" \in int_globals
          /\ int_closed' = IF "writer" \in int_globals /\ ~fail
                           THEN int_closed \cup {"writer"} ELSE int_closed
          /\ int_failed' = IF fail THEN int_failed \cup {"writer"} ELSE int_failed
          /\ main_pc' = IF fail THEN AfterCleanupFailure("handler_checkpoint")
                        ELSE "handler_checkpoint"
    /\ int_attempted' = int_attempted \cup {"writer"}
    /\ UNCHANGED <<int_globals, cwd_files>>
    /\ UNCHANGED <<main_epoch, best_acc, metrics, main_files, writer_open, pbar_open,
                   ckpt_saved_at, metrics_saved_at>>
    /\ UNCHANGED <<trainerVars, resnetVars, dropout, call, epochVars, dataVars, cfgVars>>

\* The third try block: torch.save of the global model's and optimizer's
\* state to interrupt_checkpoint.pth if both names are globals.
SaveInterruptCheckpoint ==
    /\ main_pc = "handler_checkpoint"
    /\ \E fail \in BOOLEAN :
          /\ fail => {"model", "optimizer"} \subseteq int_globals
          /\ cwd_files' = IF {"model", "optimizer"} \subseteq int_globals /\ ~fail
                          THEN WriteFile(cwd_files, "interrupt_checkpoint.pth",
                                         [model_state_dict |-> "globals()['model']",
                                          optimizer_state_dict |-> "globals()['optimizer']",
                                          interrupt_save |-> TRUE])
                          ELSE cwd_files
          /\ int_failed' = IF fail THEN int_failed \cup {"checkpoint"} ELSE int_failed
          /\ main_pc' = IF fail THEN AfterCleanupFailure("handler_exit")
                        ELSE "handler_exit"
    /\ int_attempted' = int_attempted \cup {"checkpoint"}
    /\ UNCHANGED <<int_globals, int_closed>>
    /\ UNCHANGED <<main_epoch, best_acc, metrics, main_files, writer_open, pbar_open,
                   ckpt_saved_at, metrics_saved_at>>
    /\ UNCHANGED <<trainerVars, resnetVars, dropout, call, epochVars, dataVars, cfgVars>>

\* sys.exit(0): the process ends.
SysExit ==
    /\ main_pc = "handler_exit"
    /\ main_pc' = "exited"
    /\ UNCHANGED intVars
    /\ UNCHANGED <<main_epoch, best_acc, metrics, main_files, writer_open, pbar_open,
                   ckpt_saved_at, metrics_saved_at>>
    /\ UNCHANGED <<trainerVars, resnetVars, dropout, call, epochVars, dataVars, cfgVars>>

\* The steps of the handler once it was entered.
HandlerSteps ==
    \/ CloseProgressBars
    \/ CloseWriter
    \/ SaveInterruptCheckpoint
    \/ SysExit

\* The handler in every module environment.
HandlerNext ==
    \/ \E g \in SUBSET HandlerNames : Interrupt(g \cup ModuleGlobals)
    \/ HandlerSteps

\* main() of the script and a SIGINT during its loop.
InterruptNext ==
    \/ MainNext
    \/ Interrupt(ModuleGlobals)
    \/ HandlerSteps

(***************************************************************************)
(* MetricsLogger on its own: update, save, load and plot in any order, on  *)
(* the logger and the directory of main() (metrics, main_files).           *)
(***************************************************************************)
\* Longest metric sequence the stand-alone logger is driven to.
MaxLogLen == 2

\* The epoch_metrics dictionaries update is called with: the four names
\* main() passes, and a dictionary with a name the logger does not know.
UpdateArgs ==
    {[train_acc |-> v, test_acc |-> v + 10, train_loss |-> v + 20, test_loss |-> v + 30] :
        v \in {1, 2}}
    \cup {[train_reg_loss |-> 3, val_acc |-> 4]}

\* MetricsLogger.load(filename): 'self.metrics = json.load(f)'.  open()
\* raises FileNotFoundError for a missing file and the log is left alone.
MetricsLoad(files, m, filename) ==
    IF filename \in DOMAIN files THEN files[filename] ELSE m

\* metrics_logger.update(epoch_metrics)
LoggerUpdate(epoch_metrics) ==
    /\ main_pc = "loop"
    /\ \A k \in DOMAIN metrics : Len(metrics[k]) < MaxLogLen
    /\ metrics' = MetricsUpdate(metrics, epoch_metrics)
    /\ UNCHANGED <<main_pc, main_epoch, best_acc, main_files, writer_open, pbar_open,
                   ckpt_saved_at, metrics_saved_at>>
    /\ UNCHANGED <<trainerVars, resnetVars, dropout, call, extVars>>

\* metrics_logger.save()
LoggerSave ==
    /\ main_pc = "loop"
    /\ main_files' = MetricsSave(main_files, metrics, METRICS_JSON)
    /\ UNCHANGED <<main_pc, main_epoch, best_acc, metrics, writer_open, pbar_open,
                   ckpt_saved_at, metrics_saved_at>>
    /\ UNCHANGED <<trainerVars, resnetVars, dropout, call, extVars>>

\* metrics_logger.load()
LoggerLoad ==
    /\ main_pc = "loop"
    /\ metrics' = MetricsLoad(main_files, metrics, METRICS_JSON)
    /\ UNCHANGED <<main_pc, main_epoch, best_acc, main_files, writer_open, pbar_open,
                   ckpt_saved_at, metrics_saved_at>>
    /\ UNCHANGED <<trainerVars, resnetVars, dropout, call, extVars>>

\* metrics_logger.plot()
LoggerPlot ==
    /\ main_pc = "loop"
    /\ main_files' = MetricsPlot(main_files, metrics, PLOTS_PNG)
    /\ UNCHANGED <<main_pc, main_epoch, best_acc, metrics, writer_open, pbar_open,
                   ckpt_saved_at, metrics_saved_at>>
    /\ UNCHANGED <<trainerVars, resnetVars, dropout, call, extVars>>

LoggerNext ==
    \/ \E epoch_metrics \in UpdateArgs : LoggerUpdate(epoch_metrics)
    \/ LoggerSave
    \/ LoggerLoad
    \/ LoggerPlot

(***************************************************************************)
(* The forward pass of the networks, as tensor shapes                      *)
(***************************************************************************)
\* NUM_CLASSES, the module constant.
NUM_CLASSES == 10

\* Largest num_classes a network is constructed with.
MaxClasses == 12

NetClasses == {"QResNet34", "QuaternionDenseNet"}

\* Number of elements of a tensor of shape sh.
RECURSIVE Numel(_)
Numel(sh) == IF sh = <<>> THEN 1 ELSE Head(sh) * Numel(Tail(sh))

\* Tensor.view(*target) on a contiguous tensor of shape sh; one entry of
\* target may be -1 and is inferred.  The result is the new shape, or
\* <<"RuntimeError">> when the element counts do not agree.
View(sh, target) ==
    LET known == Numel(SelectSeq(target, LAMBDA d : d # -1))
        infer == {i \in 1..Len(target) : target[i] = -1}
    IN  IF infer = {}
        THEN IF Numel(target) = Numel(sh) THEN target ELSE <<"RuntimeError">>
        ELSE IF known # 0 /\ Numel(sh) % known = 0
        THEN [i \in 1..Len(target) |-> IF i \in infer THEN Numel(sh) \div known
                                        ELSE target[i]]
        ELSE <<"RuntimeError">>

\* 'x[:, :, 0]' on a tensor of shape (B, N, 4).
SelectRealComponent(sh) == <<sh[1], sh[2]>>

\* Output shape of the last layer, QDense(512, num_classes * 4) of QResNet34
\* and QDense(in_planes, num_classes * 4) of QuaternionDenseNet, on a batch
\* of B rows.
ClassifierOutput(B, num_classes) == <<B, num_classes * 4>>

\* QResNet34.forward from the classifier on: 'x.view(batch_size, NUM_CLASSES,
\* 4)' and 'x[:, :, 0]'.
QResNet34Forward(B, num_classes) ==
    LET x == ClassifierOutput(B, num_classes)
        batch_size == x[1]
        v == View(x, <<batch_size, NUM_CLASSES, 4>>)
    IN  IF v = <<"RuntimeError">> THEN [status |-> "RuntimeError", out |-> <<>>]
        ELSE [status |-> "returned", out |-> SelectRealComponent(v)]

\* QuaternionDenseNet.forward from self.fc on: 'out.view(batch_size, -1, 4)'
\* and 'out[:, :, 0]'.
DenseNetForward(B, num_classes) ==
    LET out == ClassifierOutput(B, num_classes)
        batch_size == out[1]
        v == View(out, <<batch_size, -1, 4>>)
    IN  IF v = <<"RuntimeError">> THEN [status |-> "RuntimeError", out |-> <<>>]
        ELSE [status |-> "returned", out |-> SelectRealComponent(v)]

\* The dropRate values a QuaternionDenseNet is constructed with.
DropRates == {F64_0_0, F64_0_2}

\* main() builds QResNet34(num_classes=10), which has no dropRate.
NetInit == net = [class |-> "QResNet34", num_classes |-> 10, dropRate |-> F64_0_0]

\* QResNet34(num_classes=n) or
\* QuaternionDenseNet(depth, num_classes=n, dropRate=dropRate)
NetConstruct(class, n, dropRate) ==
    /\ call = <<>>
    /\ class = "QResNet34" => dropRate = F64_0_0
    /\ net' = [class |-> class, num_classes |-> n, dropRate |-> dropRate]
    /\ UNCHANGED <<trainerVars, mainVars, resnetVars, dropout, call, epochVars,
                   dataVars, intVars, epochs_cfg>>

\* net(x) on a batch x of shape (B, 3, 32, 32).
NetForward(B) ==
    /\ call = <<>>
    /\ LET r == IF net.class = "QResNet34"
                THEN QResNet34Forward(B, net.num_classes)
                ELSE DenseNetForward(B, net.num_classes)
       IN  call' = <<[op |-> net.class \o ".forward",
                      num_classes |-> net.num_classes,
                      x |-> [shape |-> <<B, 3, 32, 32>>],
                      status |-> r.status, out |-> [shape |-> r.out]]>>
    /\ UNCHANGED <<trainerVars, mainVars, resnetVars, dropout, extVars>>

ForwardNext ==
    \/ \E class \in NetClasses, n \in 1..MaxClasses, dropRate \in DropRates :
          NetConstruct(class, n, dropRate)
    \/ \E B \in 1..MaxB : NetForward(B)
    \/ Return

(***************************************************************************)
(* The dropout sites of the networks' forward passes                       *)
(***************************************************************************)
\* The statements of BottleneckBlock.forward and TransitionBlock.forward
\* that apply dropout.
DenseDropoutSites == {"BottleneckBlock.forward:390", "BottleneckBlock.forward:393",
                      "TransitionBlock.forward:408"}

\* nn.Module.__init__ leaves a new module in training mode.
FreshModuleTraining == TRUE

\* 'if self.droprate > 0: out = QuaternionDropout(p=self.droprate)(out)' of a
\* block built with droprate: the module is created by the statement itself.
DenseDropout(droprate, x, mask) ==
    IF F64Less(F64_0_0, droprate)
    THEN DropoutCall(droprate, FreshModuleTraining, x, mask)
    ELSE [op |-> "none", x |-> x, p |-> droprate, training |-> FreshModuleTraining,
          mask |-> EmptyTensor, status |-> "returned", out |-> x]

\* A block of the QuaternionDenseNet reaching the dropout statement 'site'
\* with activation x.
DenseDropoutForward(site, x) ==
    /\ call = <<>>
    /\ net.class = "QuaternionDenseNet"
    /\ \E mask \in Masks(x.shape) :
          LET r == DenseDropout(net.dropRate, x, mask)
          IN  call' = <<[op |-> site, x |-> r.x, p |-> r.p, training |-> r.training,
                         mask |-> r.mask, status |-> r.status, out |-> r.out]>>
    /\ UNCHANGED <<trainerVars, mainVars, resnetVars, dropout, extVars>>

\* QuaternionCIFAR10.forward reaching one of its 'x = self.dropout(x)', the
\* module QuaternionDropout(p=0.1) registered in __init__, which follows the
\* model's mode.
CIFAR10DropoutForward(x) ==
    /\ call = <<>>
    /\ \E mask \in Masks(x.shape) :
          LET r == DropoutCall(F64_0_1, model_training, x, mask)
          IN  call' = <<[op |-> "QuaternionCIFAR10.forward", x |-> r.x, p |-> r.p,
                         training |-> r.training, mask |-> r.mask,
                         status |-> r.status, out |-> r.out]>>
    /\ UNCHANGED <<trainerVars, mainVars, resnetVars, dropout, extVars>>

\* A model switched between modes and run forward up to a dropout site.
EvalModeNext ==
    \/ \E class \in NetClasses, dropRate \in DropRates :
          NetConstruct(class, NUM_CLASSES, dropRate)
    \/ ModelTrain
    \/ ModelEval
    \/ \E b \in BlockIds, w \in {1, 2}, x \in BlockInputs : BlockDropoutForward(b, w, x)
    \/ \E site \in DenseDropoutSites, x \in BlockInputs : DenseDropoutForward(site, x)
    \/ \E x \in BlockInputs : CIFAR10DropoutForward(x)
    \/ Return

(***************************************************************************)
(* Specifications                                                          *)
(***************************************************************************)
\* The stand-alone dropout module starts as QuaternionDropout() (p = 0.5).
QOpsInit ==
    /\ dropout = [p |-> F64_0_5, training |-> TRUE]
    /\ call = <<>>

Init == TrainerInit /\ MainInit /\ QResNetInit /\ QOpsInit /\ EpochInit
        /\ DatasetInit /\ HandlerInit /\ NetInit

Next == TrainerNext \/ MainNext \/ ResNetNext \/ QOpsNext \/ EpochNext
        \/ DataNext \/ HandlerNext \/ LoggerNext \/ ForwardNext \/ EvalModeNext

Spec == Init /\ [][Next]_vars

\* The Trainer alone.
SpecTrainer == Init /\ [][TrainerNext]_vars

\* main()'s training loop alone.
SpecMain == Init /\ [][MainNext]_vars

\* A QResNet34 alone.
SpecQResNet == Init /\ [][ResNetNext]_vars

\* The quaternion structural operations alone.
SpecQOps == Init /\ [][QOpsNext]_vars

\* One Trainer running train_one_epoch.
SpecEpoch == Init /\ [][EpochNext]_vars

\* One MultiAugmentDataset, Cutout and the global torch generator.
SpecData == Init /\ [][DataNext]_vars

\* handle_keyboard_interrupt under every set of module globals.
SpecHandler == Init /\ [][HandlerNext]_vars

\* main() of the script interrupted by SIGINT.
SpecInterrupt == Init /\ [][InterruptNext]_vars

\* A MetricsLogger driven by any sequence of its operations.
SpecLogger == Init /\ [][LoggerNext]_vars

\* A network constructed and run forward.
SpecForward == Init /\ [][ForwardNext]_vars

\* A model in training or evaluation mode reaching its dropout sites.
SpecEvalMode == Init /\ [][EvalModeNext]_vars

(***************************************************************************)
(* Claims: Trainer                                                         *)
(***************************************************************************)
\* A step of Trainer.validate_and_save.
ValidateStep == trainer_pc = "validate" /\ trainer_pc' = "train"

\* spec.md section 8: the mAP@0.5 sequence of the checkpoint scenario.
ScenarioMap50 == <<10, 25, 20, 30>>

\* C1: validate_and_save(epoch) writes best_model.pth at exactly the epochs
\* whose map50 is strictly greater than every map50 seen before (and than the
\* initial best_map of 0.0), and at no other epoch; for the map50 sequence
\* [0.10, 0.25, 0.20, 0.30] the best saves are at epochs 0, 1 and 3.
C1_BestSavedExactlyOnImprovement ==
    /\ [][ValidateStep =>
            /\ (trainer_epoch \in best_saved_at') <=> (max_seen' > max_seen)
            /\ best_saved_at' \ {trainer_epoch} = best_saved_at
            /\ trainer_epoch \notin best_saved_at]_vars
    /\ [](SubSeq(map50_log, 1, Min(Len(map50_log), 4)) = ScenarioMap50
            => best_saved_at \cap (0..3) = {0, 1, 3})

\* C1 witness: the scenario has run and the best saves were at 0, 1 and 3.
C1_Witness ==
    /\ trainer_epoch = 4
    /\ SubSeq(map50_log, 1, Min(Len(map50_log), 4)) = ScenarioMap50
    /\ best_saved_at = {0, 1, 3}

\* C2: after validating epochs 0..n in order, checkpoint_epoch_<e>.pth exists
\* for every multiple of 10 e <= n, whatever the metrics were, so some
\* persisted checkpoint is fewer than 10 epochs older than n.
C2_PeriodicCheckpoint ==
    trainer_epoch > 0 =>
        LET n == trainer_epoch - 1
        IN  /\ \A e \in 0..n : e % 10 = 0 =>
                  /\ CheckpointPath(e) \in DOMAIN save_dir
                  /\ save_dir[CheckpointPath(e)].epoch = e
            /\ \E e \in 0..n : /\ CheckpointPath(e) \in DOMAIN save_dir
                               /\ n - e < 10

\* C2 witness: the metric never improved, and epoch 10's periodic checkpoint
\* is on disk after epoch 11 was validated.
C2_Witness ==
    /\ trainer_epoch = 12
    /\ max_seen = 0
    /\ DOMAIN save_dir = {CheckpointPath(0), CheckpointPath(10)}

(***************************************************************************)
(* Claims: main()'s checkpointing                                          *)
(***************************************************************************)
\* The largest element of a non-empty set of integers.
MaxOfSet(S) == CHOOSE x \in S : \A y \in S : y <= x

\* The best test accuracy of epochs 0..e-1, and 0 when there is none.
BestAccBefore(e) == MaxOfSet({0} \cup {metrics.test_acc[i] : i \in 1..e})

\* Epochs at which the test accuracy was strictly above all earlier ones and 0.
ImprovingEpochs == {e \in 0..(main_epoch - 1) : metrics.test_acc[e + 1] > BestAccBefore(e)}

\* C3 as stated: in main() a model checkpoint is persisted every 10 epochs
\* whether or not test accuracy improved, so once 10 epochs have run some
\* checkpoint write is fewer than 10 epochs old.
C3_CheckpointEveryTenEpochs ==
    main_epoch >= 10 =>
        \E e \in ckpt_saved_at : (main_epoch - 1) - e < 10

\* C3 amended: what main() persists on the 10-epoch cadence, whether or not
\* test accuracy improved, is the metrics log (JSON and plot), at the end of
\* every epoch e with (e + 1) % 10 = 0; the model checkpoint is written only
\* at epochs whose test accuracy exceeded the best value seen so far.
C3_MetricsEveryTenEpochs ==
    /\ metrics_saved_at = {e \in 0..(main_epoch - 1) : (e + 1) % 10 = 0}
    /\ (metrics_saved_at # {}) =>
          /\ METRICS_JSON \in DOMAIN main_files
          /\ PLOTS_PNG \in DOMAIN main_files
          /\ \A k \in DOMAIN metrics :
                main_files[METRICS_JSON][k] =
                    SubSeq(metrics[k], 1,
                           Min(Len(metrics[k]), MaxOfSet(metrics_saved_at) + 1))
    /\ (metrics_saved_at = {}) => METRICS_JSON \notin DOMAIN main_files
    /\ ckpt_saved_at \subseteq ImprovingEpochs

\* C3 witness: ten epochs ran without any improvement of test accuracy; the
\* metrics were persisted at epoch 9 and no model checkpoint exists.
C3_Witness ==
    /\ main_epoch = 10
    /\ best_acc = 0
    /\ metrics_saved_at = {9}
    /\ MODEL_NAME \notin DOMAIN main_files
    /\ Len(main_files[METRICS_JSON].test_acc) = 10

\* C4: the checkpoint is written at epoch e exactly when test_acc of e is
\* strictly greater than best_acc; after every epoch best_acc is the maximum
\* of 0 and all test accuracies so far, and the last written checkpoint holds
\* that maximum as 'accuracy' and the first epoch that reached it as 'epoch'.
C4_BestAccCheckpoint ==
    /\ ckpt_saved_at = ImprovingEpochs
    /\ best_acc = BestAccBefore(main_epoch)
    /\ (MODEL_NAME \in DOMAIN main_files) <=> (ckpt_saved_at # {})
    /\ (MODEL_NAME \in DOMAIN main_files) =>
          LET ckpt == main_files[MODEL_NAME]
          IN  /\ ckpt.accuracy = best_acc
              /\ ckpt.epoch \in 0..(main_epoch - 1)
              /\ metrics.test_acc[ckpt.epoch + 1] = best_acc
              /\ \A e \in 0..(ckpt.epoch - 1) : metrics.test_acc[e + 1] < best_acc

\* C4 witness: the best accuracy was reached, then met again without a save,
\* and a lower accuracy followed; the checkpoint is still the first best one.
C4_Witness ==
    /\ metrics.test_acc = <<40, 70, 70, 40>>
    /\ ckpt_saved_at = {0, 1}
    /\ main_files[MODEL_NAME].epoch = 1
    /\ main_files[MODEL_NAME].accuracy = 70

(***************************************************************************)
(* Claims: QResNet34's dropout-rate schedule                               *)
(***************************************************************************)
\* A step of QResNet34.update_dropout_rates.
UpdateStep == update_calls' = update_calls + 1

\* The double 0.45, the rate from which one increment reaches the clamp.
F64_0_45 == <<241591910, 107374184>>

\* a <= b on doubles.
F64Leq(a, b) == ~F64Less(b, a)

AllRatesHalf == \A i \in 1..Len(current_rates) : current_rates[i] = F64_0_5

\* C5: one update_dropout_rates call replaces each of the 5 rates r by
\* min(0.5, r + 0.05) in double arithmetic: a rate below 0.45 becomes r + 0.05
\* (which is at most 0.5), every other rate becomes exactly 0.5, and the list
\* keeps its length of 5.
C5_UpdateAddsIncrementClamped ==
    [][UpdateStep =>
        /\ Len(current_rates) = 5
        /\ Len(current_rates') = 5
        /\ \A i \in 1..5 :
              IF F64Less(current_rates[i], F64_0_45)
              THEN /\ current_rates'[i] = F64Add(current_rates[i], F64_0_05)
                   /\ F64Less(current_rates[i], current_rates'[i])
                   /\ F64Leq(current_rates'[i], F64_0_5)
              ELSE current_rates'[i] = F64_0_5]_vars

\* C5 witness: a call has just clamped the classifier rate to 0.5 while the
\* first stage's rate, still below 0.45, rose by the increment.
C5_Witness ==
    /\ update_calls = 6
    /\ current_rates[5] = F64_0_5
    /\ current_rates[4] # F64_0_5
    /\ F64Less(current_rates[1], F64_0_45)

\* C6: from the initial rates [0.1, 0.15, 0.2, 0.2, 0.25], no call lowers a
\* rate and no rate ever exceeds 0.5; after finitely many calls (9) all five
\* rates are 0.5, and a call made then changes nothing.
C6_RatesMonotoneToHalf ==
    /\ [][UpdateStep =>
            \A i \in 1..5 : /\ F64Leq(current_rates[i], current_rates'[i])
                            /\ F64Leq(current_rates'[i], F64_0_5)]_vars
    /\ [](\A i \in 1..5 : F64Leq(current_rates[i], F64_0_5))
    /\ [](update_calls >= 9 => AllRatesHalf)
    /\ [][UpdateStep /\ AllRatesHalf => current_rates' = current_rates]_vars

\* C6 witness: a tenth call was made with every rate already at 0.5.
C6_Witness == update_calls = 10 /\ AllRatesHalf

\* C7: after each update_dropout_rates call, dropout1.p and dropout2.p of
\* every block of stage k equal current_rates[k] and the classifier dropout's
\* p equals current_rates[4]; the modules are the ones built at construction
\* (same objects, same types), none replaced or skipped.
C7_RatesPushedIntoModules ==
    update_calls >= 1 =>
        /\ DOMAIN blocks = BlockIds
        /\ \A b \in BlockIds :
              /\ blocks[b].dropout1 = [id |-> ModuleId(b[1], b[2], 1),
                                       type |-> "QuaternionDropout",
                                       p |-> current_rates[b[1] + 1]]
              /\ blocks[b].dropout2 = [id |-> ModuleId(b[1], b[2], 2),
                                       type |-> "QuaternionDropout",
                                       p |-> current_rates[b[1] + 1]]
        /\ classifier_dropout = [id |-> 0, type |-> "Dropout", p |-> current_rates[5]]

\* C7 witness: two calls were made; the last block of conv4_x drops with
\* 0.3 (0.2 raised twice) and the classifier module with 0.35.
C7_Witness ==
    /\ update_calls = 2
    /\ blocks[<<2, 5>>].dropout2.p = F64_0_3
    /\ classifier_dropout.p = F64Add(F64_0_3, F64_0_05)

(***************************************************************************)
(* Claims: the quaternion structural operations                            *)
(***************************************************************************)
\* The pending call is one of QuaternionDropout.forward.
IsDropoutCall == call # <<>> /\ call[1].op = "QuaternionDropout.forward"

\* The (b, c, h, w) positions of a 5-D tensor shape.
Positions(sh) == (0..(sh[1] - 1)) \X (0..(sh[2] - 1)) \X (0..(sh[4] - 1)) \X (0..(sh[5] - 1))

\* C8: in training mode with 0 < p < 1, on an input of shape (B, C, 4, H, W),
\* for every position (b, c, h, w) either all 4 output components are zero or
\* all 4 are the input components divided by 1 - p; never a mix.
C8_DropoutMaskSharedByComponents ==
    (/\ IsDropoutCall
     /\ call[1].training
     /\ call[1].p # F64_0_0
     /\ call[1].x.shape[3] = 4) =>
        LET c == call[1]
        IN  /\ c.status = "returned"
            /\ c.out.shape = c.x.shape
            /\ \A pos \in Positions(c.x.shape) :
                  \/ \A q \in 0..3 :
                        At(c.out, <<pos[1], pos[2], q, pos[3], pos[4]>>) = <<0, c.p>>
                  \/ \A q \in 0..3 :
                        At(c.out, <<pos[1], pos[2], q, pos[3], pos[4]>>)
                            = <<At(c.x, <<pos[1], pos[2], q, pos[3], pos[4]>>), c.p>>

\* C8 witness: a training-mode call with p = 0.5 whose mask kept one position
\* and dropped another of a two-channel input.
C8_Witness ==
    /\ IsDropoutCall
    /\ call[1].training
    /\ call[1].p = F64_0_5
    /\ call[1].x.shape = <<1, 2, 4, 1, 1>>
    /\ call[1].status = "returned"
    /\ call[1].mask.data = <<TRUE, FALSE>>

\* C9 as stated: every quaternion structural operation fails with an
\* assertion error, returning no tensor, whenever the component axis of its
\* 5-D input is not 4, in every module mode and for every dropout probability.
C9_AssertsOnBadComponentAxis ==
    (call # <<>> /\ call[1].x.shape[3] # 4) =>
        (call[1].status = "AssertionError" /\ call[1].out = EmptyTensor)

\* C10: QuaternionDropout.forward returns its input unchanged whenever the
\* module is in evaluation mode or p is 0.
C10_DropoutPassThrough ==
    (IsDropoutCall /\ (~call[1].training \/ call[1].p = F64_0_0)) =>
        (call[1].status = "returned" /\ call[1].out = call[1].x)

\* C10 witness: an evaluation-mode call of a module with p = 0.5 returned a
\* well-formed input with non-zero elements as it was.
C10_Witness ==
    /\ IsDropoutCall
    /\ ~call[1].training
    /\ call[1].p = F64_0_5
    /\ call[1].x.shape = <<1, 2, 4, 1, 1>>
    /\ call[1].out = call[1].x

(***************************************************************************)
(* Claims: quaternion pooling                                              *)
(***************************************************************************)
\* The pending call is one of the four pooling operations.
IsPoolCall == call # <<>> /\ call[1].op \in {"QuaternionAvgPool.forward",
                                             "QuaternionMaxPool.forward",
                                             "QuaternionCIFAR10.pool_spatial_only",
                                             "QuaternionCIFAR10.avg_pool"}

\* t[:, :, k]: the 4-D tensor (B, C, H, W) of component k of a 5-D tensor.
ComponentSlice(t, k) ==
    LET sh == <<t.shape[1], t.shape[2], t.shape[4], t.shape[5]>>
    IN  [shape |-> sh,
         data  |-> [n \in 1..Prod(sh) |->
                       LET j == Unflatten(sh, n)
                       IN  At(t, <<j[1], j[2], k, j[3], j[4]>>)]]

\* C11: for each of the four pooling operations, every input of shape
\* (B, C, 4, H, W) the operation returns on and every component k in 0..3,
\* component k of the pooled output is the same 2-D pooling applied to
\* component k of the input: no value moves to another batch item, channel
\* or component.
C11_PoolingCommutesWithComponents ==
    (IsPoolCall /\ call[1].status = "returned") =>
        \A k \in 0..3 :
            LET direct == Pool2d(ComponentSlice(call[1].x, k), call[1].cfg)
            IN  /\ direct.status = "returned"
                /\ ComponentSlice(call[1].out, k) = direct.out

\* C11 witness: a pooling call returned on an input with more than one
\* channel, pooling a window of more than one element.
C11_Witness ==
    /\ IsPoolCall
    /\ call[1].status = "returned"
    /\ call[1].x.shape[2] > 1
    /\ call[1].x.shape[4] > 1
    /\ call[1].x.shape[5] > 1
    /\ call[1].op = "QuaternionMaxPool.forward"

(***************************************************************************)
(* Claims: Trainer.train_one_epoch                                         *)
(***************************************************************************)
\* What follows an exception raised by step exc[2] of batch exc[1], in every
\* later state of the call: the exception itself reaches the caller and no
\* metrics are returned, the step that raised is the last step started (no
\* later batch, no retry of the batch), and batch exc[1] was fetched once.
AbortsOn(exc) ==
    /\ ep_pc = "raised"
    /\ ep_result = <<[kind |-> "raised", exc |-> exc]>>
    /\ ep_trace[Len(ep_trace)] = exc
    /\ \A i \in 1..Len(ep_trace) : ep_trace[i][1] <= exc[1]
    /\ Cardinality({i \in 1..Len(ep_trace) : ep_trace[i] = <<exc[1], "fetch">>}) = 1

\* C12 as stated: when any step of batch k raises (the fetch of the batch
\* included), the batch index is logged and the same exception is re-raised;
\* no later batch is processed, batch k is not retried and no metrics are
\* returned.
C12_EveryStepLoggedAndReraised ==
    ep_raised # <<>> => (AbortsOn(ep_raised[1]) /\ ep_log = <<ep_raised[1][1]>>)

\* C12 amended: when a statement of the loop body of batch k raises, the
\* batch index is logged and the same exception is re-raised; when the fetch
\* of batch k raises, the exception reaches the caller without the log; in
\* both cases no later batch is processed, batch k is not retried and no
\* metrics are returned.
C12_BodyStepLoggedAndReraised ==
    ep_raised # <<>> =>
        /\ AbortsOn(ep_raised[1])
        /\ ep_log = IF ep_raised[1][2] = "fetch" THEN <<>> ELSE <<ep_raised[1][1]>>

\* C12 witness: the backward pass of the second batch raised, after the
\* first batch was processed to its end.
C12_Witness ==
    /\ ep_raised = <<<<1, "backward">>>>
    /\ ep_log = <<1>>
    /\ ep_pc = "raised"
    /\ \E i \in 1..Len(ep_trace) : ep_trace[i] = <<0, "accumulate">>

\* The optional steps a Trainer with configuration cfg runs.
ClipSteps(cfg) == IF cfg.grad_clip_val > 0 THEN <<"clip">> ELSE <<>>

SchedulerSteps(cfg) == IF cfg.scheduler THEN <<"scheduler_step">> ELSE <<>>

\* The steps the claim lists, in the order it lists them.
ClaimedOrder(cfg) ==
    <<"fetch", "to_device", "zero_grad", "forward", "loss", "backward">>
        \o ClipSteps(cfg) \o <<"optimizer_step">> \o SchedulerSteps(cfg)
        \o <<"accumulate">>

\* The same steps with the gradients zeroed before the batch is moved.
ZeroGradFirstOrder(cfg) ==
    <<"fetch", "zero_grad", "to_device", "forward", "loss", "backward">>
        \o ClipSteps(cfg) \o <<"optimizer_step">> \o SchedulerSteps(cfg)
        \o <<"accumulate">>

\* The listed steps of batch k, in the order they were started.
StepsOfBatch(k) ==
    LET listed(e) == e[1] = k /\ e[2] # "postfix"
        sel == SelectSeq(ep_trace, listed)
    IN  [i \in 1..Len(sel) |-> sel[i][2]]

\* The batches processed without error: metric accumulation ran to its end.
ProcessedBatches ==
    {k \in 0..MaxBatches :
        /\ \E i \in 1..Len(ep_trace) : ep_trace[i] = <<k, "accumulate">>
        /\ ep_raised # <<<<k, "accumulate">>>>}

\* No step of batch k + 1 was started before the accumulation of batch k.
BatchesDoNotOverlap ==
    \A i, j \in 1..Len(ep_trace) :
        (ep_trace[i][1] < ep_trace[j][1]) => i < j

\* C13 as stated: every batch processed without error runs fetch, move to
\* device, zero gradients, forward, loss, backward, clipping (only when
\* grad_clip_val > 0), optimizer step, scheduler step (only when a scheduler
\* is set), accumulate, in that order, and batches do not overlap.
C13_StepsInClaimedOrder ==
    /\ \A k \in ProcessedBatches : StepsOfBatch(k) = ClaimedOrder(ep_cfg)
    /\ BatchesDoNotOverlap

\* C13 amended: the order is fetch, zero gradients, move to device, forward,
\* loss, backward, clipping (only when grad_clip_val > 0), optimizer step,
\* scheduler step (only when a scheduler is set), accumulate; no step of
\* batch k + 1 starts before the accumulation of batch k.
C13_StepsInSourceOrder ==
    /\ \A k \in ProcessedBatches : StepsOfBatch(k) = ZeroGradFirstOrder(ep_cfg)
    /\ BatchesDoNotOverlap

\* C13 witness: a Trainer without clipping and without scheduler returned
\* from an epoch of at least two batches.
C13_Witness ==
    /\ ep_pc = "returned"
    /\ ep_cfg.grad_clip_val = 0
    /\ ~ep_cfg.scheduler
    /\ {0, 1} \subseteq ProcessedBatches

(***************************************************************************)
(* Claims: MultiAugmentDataset and Cutout                                  *)
(***************************************************************************)
\* The pending call is one of MultiAugmentDataset.__getitem__.
IsGetItemCall == call # <<>> /\ call[1].op = "MultiAugmentDataset.__getitem__"

\* The 0-based positions of the index array that hold base index b.
OccurrencesOf(d, b) == {i \in 0..(Len(d.indices) - 1) : d.indices[i + 1] = b}

\* A step that starts a call of __getitem__ or __len__.
DatasetReadStep ==
    /\ call = <<>>
    /\ call' # <<>>
    /\ call'[1].op \in {"MultiAugmentDataset.__getitem__", "MultiAugmentDataset.__len__"}

\* C14: a training-mode dataset over n base samples with multiplier m has an
\* index array of length n * m that holds every base index exactly m times,
\* __len__ returns n * m, and neither __getitem__ nor __len__ changes the
\* array; for n = 10 and m = 2 the dataset has exactly 20 samples.
C14_IndexArrayFixed ==
    /\ [](ds.train =>
            /\ Len(ds.indices) = ds.base_len * ds.augmentations_per_image
            /\ \A b \in 0..(ds.base_len - 1) :
                   Cardinality(OccurrencesOf(ds, b)) = ds.augmentations_per_image
            /\ \A i \in 1..Len(ds.indices) : ds.indices[i] \in 0..(ds.base_len - 1)
            /\ ((call # <<>> /\ call[1].op = "MultiAugmentDataset.__len__")
                   => call[1].out = Len(ds.indices))
            /\ ((ds.base_len = 10 /\ ds.augmentations_per_image = 2)
                   => (DatasetLen(ds) = 20 /\ Len(ds.indices) = 20)))
    /\ [][DatasetReadStep => ds' = ds]_vars

\* C14 witness: len() was called on the training dataset of the scenario, 10
\* base samples with multiplier 2, and returned 20.
C14_Witness ==
    /\ ds.train
    /\ ds.base_len = 10
    /\ ds.augmentations_per_image = 2
    /\ call # <<>>
    /\ call[1].op = "MultiAugmentDataset.__len__"
    /\ call[1].out = 20

\* The transform path __getitem__(index) of dataset d takes.
PathOf(d, index) == GetItem(d, index, torch_rng).transformed.path

\* C15: in a training-mode dataset, for every base sample the first of its
\* occurrences in the index array gets the weak policy and every other
\* occurrence the strong policy, so each base sample is weakly augmented
\* exactly once per pass.
C15_FirstOccurrenceWeak ==
    ds.train =>
        \A b \in 0..(ds.base_len - 1) :
            \A i \in OccurrencesOf(ds, b) :
                (PathOf(ds, i) = "weak") <=> (\A j \in OccurrencesOf(ds, b) : i <= j)

\* C16: in training mode __getitem__(i) takes the weak path exactly when
\* i % augmentations_per_image = 0 and the strong path for every other
\* index; in test mode it takes the test transform and returns base sample i.
C16_WeakPathAtAlignedIndex ==
    IsGetItemCall =>
        IF ds.train
        THEN /\ (call[1].transformed.path = "weak")
                    <=> (call[1].index % ds.augmentations_per_image = 0)
             /\ (call[1].transformed.path = "strong")
                    <=> (call[1].index % ds.augmentations_per_image # 0)
             /\ call[1].real_idx = ds.indices[call[1].index + 1]
        ELSE /\ call[1].transformed.path = "test"
             /\ call[1].real_idx = call[1].index
             /\ call[1].transformed.image = BaseSample(call[1].index).image
             /\ call[1].label = BaseSample(call[1].index).label

\* C16 witness: with multiplier 2, index 2 was requested and took the weak
\* path.
C16_Witness ==
    /\ IsGetItemCall
    /\ ds.train
    /\ ds.augmentations_per_image = 2
    /\ call[1].index = 2
    /\ call[1].transformed.path = "weak"

\* States the global torch generator can be in before a call: seeded by
\* other code or by an earlier request, and advanced by some draws.
TorchStates ==
    {[seed |-> sd, count |-> c] : sd \in Seeds \cup (0..MaxAug),
                                  c \in 0..MaxOtherDraws}

\* What a caller of __getitem__ receives.
ItemOf(r) == [transformed |-> r.transformed, label |-> r.label, real_idx |-> r.real_idx]

\* C17: for a fixed seed and base dataset, what training-mode
\* __getitem__(i) returns (base index, transform path, random draws, label)
\* is the same whatever state the global generator was in before the call,
\* the state other requests left it in included, and the same as a second
\* dataset object built with the same seed returns.
C17_GetItemDeterministic ==
    (IsGetItemCall /\ ds.train) =>
        LET second == MakeDataset(ds.base_len, ds.augmentations_per_image, TRUE, ds.seed)
        IN  \A g \in TorchStates \cup {torch_rng} :
                /\ ItemOf(GetItem(ds, call[1].index, g)) = ItemOf(call[1])
                /\ ItemOf(GetItem(second, call[1].index, g)) = ItemOf(call[1])

\* C17 witness: a strong-path item was requested while the global generator
\* was in a state other than the one the request seeds.
C17_Witness ==
    /\ IsGetItemCall
    /\ ds.train
    /\ call[1].transformed.path = "strong"
    /\ call[1].rng_before.seed # call[1].index
    /\ call[1].rng_before.count > 0

\* C18: Cutout.__call__ leaves the global torch generator as it found it,
\* for every number of holes and every image.
C18_CutoutKeepsGeneratorState ==
    (call # <<>> /\ call[1].op = "Cutout.__call__") => torch_rng = call[1].rng_before

\* C18 witness: a Cutout with two holes, which drew four numbers, returned.
C18_Witness ==
    /\ call # <<>>
    /\ call[1].op = "Cutout.__call__"
    /\ call[1].n_holes = 2
    /\ Len(call[1].out.holes) = 2
    /\ torch_rng = call[1].rng_before

(***************************************************************************)
(* Claims: the interrupt handler                                           *)
(***************************************************************************)
\* The cleanup steps of the handler, one per try block.
CleanupSteps == {"progress_bars", "writer", "checkpoint"}

\* The positions inside the handler, before sys.exit(0) has run.
HandlerPositions ==
    {"handler_bars", "handler_writer", "handler_checkpoint", "handler_exit"}

\* The cleanup steps entered before the handler reaches position pc.
StepsBefore(pc) ==
    IF pc = "handler_bars" THEN {}
    ELSE IF pc = "handler_writer" THEN {"progress_bars"}
    ELSE IF pc = "handler_checkpoint" THEN {"progress_bars", "writer"}
    ELSE CleanupSteps

\* C19: in handle_keyboard_interrupt an exception in any cleanup step
\* (closing the progress displays, closing the log writer, saving the
\* interrupt checkpoint) does not keep any other cleanup step from being
\* attempted, and sys.exit(0) is reached for every combination of failing
\* steps: whatever failed, the handler is at a position from which it goes
\* on, every earlier step was entered, and at the exit all three were.
C19_CleanupStepsIndependent ==
    /\ main_pc \in {"loop", "done", "exited"} \cup HandlerPositions
    /\ main_pc \in HandlerPositions =>
           /\ ENABLED HandlerSteps
           /\ int_attempted = StepsBefore(main_pc)
    /\ main_pc = "exited" => int_attempted = CleanupSteps
    /\ int_failed \subseteq int_attempted

\* C19 witness: all three cleanup steps raised and the process exited.
C19_Witness ==
    /\ main_pc = "exited"
    /\ int_failed = CleanupSteps
    /\ int_attempted = CleanupSteps

\* C20: when SIGINT arrives while main() runs its training loop, then before
\* the process ends the handler has closed the progress bar and the log
\* writer created by main() and has written an interrupt checkpoint with the
\* model and optimizer state.
C20_InterruptCleansUpMain ==
    main_pc = "exited" =>
        /\ ~pbar_open
        /\ ~writer_open
        /\ "interrupt_checkpoint.pth" \in DOMAIN cwd_files

(***************************************************************************)
(* Claims: MetricsLogger                                                   *)
(***************************************************************************)
\* The six metric names of MetricsLogger.__init__.
MetricNames == {"train_acc", "test_acc", "train_loss", "test_loss",
                "train_reg_loss", "test_reg_loss"}

\* Sequence a is an initial part of sequence b.
IsPrefix(a, b) == Len(a) <= Len(b) /\ \A i \in 1..Len(a) : a[i] = b[i]

\* From this state to the next the log keeps its six names and every metric
\* keeps what it held, in place.
LogOnlyAppended ==
    /\ DOMAIN metrics' = MetricNames
    /\ \A k \in MetricNames : IsPrefix(metrics[k], metrics'[k])

\* A step of update, load, save or plot.
UpdateStepOfLogger == \E a \in UpdateArgs : LoggerUpdate(a)

\* update appends one value to each known metric it names and nothing else.
UpdateAppendsOne ==
    \A a \in UpdateArgs :
        LoggerUpdate(a) =>
            \A k \in MetricNames :
                metrics'[k] = IF k \in DOMAIN a THEN Append(metrics[k], a[k])
                              ELSE metrics[k]

\* C21 as stated: across any sequence of update, save, load and plot the
\* log keeps its six names and each metric changes only by appending at
\* its end; update appends exactly one value to each known metric it names
\* and ignores unknown names.
C21_LogAppendOnly ==
    /\ [](DOMAIN metrics = MetricNames)
    /\ [][LogOnlyAppended]_vars
    /\ [][UpdateAppendsOne]_vars

\* C21 amended: the same for update, save and plot, while load replaces the
\* whole log by the content of the file, which drops the values appended
\* since that file was saved.
C21_LogAppendOnlyExceptLoad ==
    /\ [](DOMAIN metrics = MetricNames)
    /\ [][(UpdateStepOfLogger \/ LoggerSave \/ LoggerPlot) => LogOnlyAppended]_vars
    /\ [][UpdateAppendsOne]_vars
    /\ [][LoggerLoad => metrics' = (IF METRICS_JSON \in DOMAIN main_files
                                     THEN main_files[METRICS_JSON] ELSE metrics)]_vars

\* C21 witness: the log was saved with one epoch, a second epoch was
\* appended, and a dictionary with an unknown name was passed to update.
C21_Witness ==
    /\ METRICS_JSON \in DOMAIN main_files
    /\ Len(main_files[METRICS_JSON].train_acc) = 1
    /\ Len(metrics.train_acc) = 2
    /\ Len(metrics.train_reg_loss) = 1
    /\ PLOTS_PNG \in DOMAIN main_files

\* The metrics JSON file holds one entry per completed epoch for each of
\* the four metrics main() records.
JsonHoldsEveryEpoch ==
    /\ METRICS_JSON \in DOMAIN main_files
    /\ \A k \in {"train_acc", "test_acc", "train_loss", "test_loss"} :
           /\ Len(main_files[METRICS_JSON][k]) = main_epoch
           /\ main_files[METRICS_JSON][k] = metrics[k]

\* C22: whatever the configured number of epochs, when main() has finished
\* the metrics JSON file on disk holds the values of every completed epoch.
C22_MetricsPersistedAtEnd ==
    (main_pc = "done" /\ main_epoch = epochs_cfg) => JsonHoldsEveryEpoch

(***************************************************************************)
(* Claims: QResNet34's dropout modules and forward pass                    *)
(***************************************************************************)
\* C24: in every reachable state of a QResNet34, directly after construction
\* and after any number of update_dropout_rates calls, dropout1.p and
\* dropout2.p of each block of stage k equal current_rates[k] and the
\* classifier dropout's p equals current_rates[4].
C24_ModulesFollowSchedule ==
    /\ \A b \in BlockIds :
          /\ blocks[b].dropout1.p = current_rates[b[1] + 1]
          /\ blocks[b].dropout2.p = current_rates[b[1] + 1]
    /\ classifier_dropout.p = current_rates[5]

\* The pending call is a forward pass of a network.
IsNetForwardCall ==
    call # <<>> /\ call[1].op \in {c \o ".forward" : c \in NetClasses}

\* C23: for every model and every num_classes it is constructed with, the
\* forward pass on a batch of B images returns logits of shape
\* (B, num_classes); in particular QResNet34(num_classes=n).forward returns
\* shape (B, n) for every n >= 1.
C23_LogitsShape ==
    IsNetForwardCall =>
        /\ call[1].status = "returned"
        /\ call[1].out.shape = <<call[1].x.shape[1], call[1].num_classes>>

(***************************************************************************)
(* Claims: the Trainer's best-model bookkeeping                            *)
(***************************************************************************)
\* The epochs of the log whose map50 equals the largest value seen.
EpochsAtMax == {e \in 0..(Len(map50_log) - 1) : map50_log[e + 1] = max_seen}

\* C25: after any sequence of validate_and_save calls best_map never
\* decreases and equals the maximum of 0.0 and all map50 values seen,
\* best_epoch is the first epoch that reached that maximum, and whenever
\* best_model.pth exists its 'epoch' and 'best_map' fields equal best_epoch
\* and best_map and its content is identical to
\* checkpoint_epoch_<best_epoch>.pth, also when the best epoch is a multiple
\* of 10 and the checkpoint is written twice.
C25_BestBookkeeping ==
    /\ [][best_map' >= best_map]_vars
    /\ [][ValidateStep =>
            best_epoch' = IF max_seen' > max_seen THEN trainer_epoch
                          ELSE best_epoch]_vars
    /\ [](best_map = max_seen)
    /\ []((trainer_epoch > 0 /\ Len(map50_log) = trainer_epoch) =>
            /\ best_epoch \in EpochsAtMax
            /\ \A e \in EpochsAtMax : best_epoch <= e)
    /\ [](BestPath \in DOMAIN save_dir =>
            /\ save_dir[BestPath].epoch = best_epoch
            /\ save_dir[BestPath].best_map = best_map
            /\ CheckpointPath(best_epoch) \in DOMAIN save_dir
            /\ save_dir[BestPath] = save_dir[CheckpointPath(best_epoch)])

\* C25 witness: validate_and_save(10) found a new best and wrote the
\* checkpoint, the best model and the checkpoint again, after an earlier
\* best at epoch 2 and an equal metric at epoch 3.
C25_Witness ==
    /\ trainer_epoch = 11
    /\ best_epoch = 10
    /\ best_saved_at = {2, 10}
    /\ Len(map50_log) = 4 /\ map50_log[3] = map50_log[4]
    /\ last_writes = <<CheckpointPath(10), BestPath, CheckpointPath(10)>>
    /\ save_dir[BestPath] = save_dir[CheckpointPath(10)]

\* The pending call is a dropout site of a model's forward pass.
IsDropoutSiteCall ==
    call # <<>> /\ call[1].op \in DenseDropoutSites
                                   \cup {"QuaternionDropout.forward", "Identity.forward",
                                         "QuaternionCIFAR10.forward"}

\* C26: whenever the model is in evaluation mode, every dropout site of its
\* forward pass (QuaternionBasicBlock, QuaternionCIFAR10, BottleneckBlock,
\* TransitionBlock) draws no mask and returns its input unchanged, for every
\* drop rate.
C26_NoDropoutInEvalMode ==
    (IsDropoutSiteCall /\ ~model_training) =>
        /\ call[1].status = "returned"
        /\ call[1].mask = EmptyTensor
        /\ call[1].out = call[1].x

====
